---------------------------- MODULE Spec2Model ----------------------------
(***************************************************************************)
(* A model of rast-excel: the placeholder registry (template/registry.go), *)
(* the sheet scanner (processor/processor.go), the built-in handlers       *)
(* (template/handlers.go) and the coordinate helpers (excel/cell.go),      *)
(* running against an in-memory workbook that stands for the excelize file *)
(* the handlers mutate.                                                    *)
(*                                                                         *)
(* Strings are sequences of symbols.  A symbol is a one-character string   *)
(* or an atomic placeholder token such as "{{days}}"; strings.Contains is  *)
(* contiguous-subsequence containment over symbols.  Rows and columns are  *)
(* 0-based as in the Go code; TLA+ sequences are 1-based, so cell (r, c)   *)
(* of a sheet is rows[r + 1][c + 1].                                       *)
(***************************************************************************)
EXTENDS Integers, Sequences, FiniteSets, TLC

-----------------------------------------------------------------------------
(* Bounds of the model. *)

\* Employee lists of length 0 .. MaxEmployees are supplied to the handlers.
MaxEmployees == 2

\* Besides a full month of attendance, employees with this many attendance
\* entries are supplied.
ShortAttendance == 2

-----------------------------------------------------------------------------
(* Strings, numbers and errors. *)

Nil == <<>>

Letters ==
    << "A", "B", "C", "D", "E", "F", "G", "H", "I", "J", "K", "L", "M",
       "N", "O", "P", "Q", "R", "S", "T", "U", "V", "W", "X", "Y", "Z" >>

Digits == << "0", "1", "2", "3", "4", "5", "6", "7", "8", "9" >>

\* strings.Contains(value, pattern)
Contains(value, pattern) ==
    \E i \in 0 .. (Len(value) - Len(pattern)) :
        SubSeq(value, i + 1, i + Len(pattern)) = pattern

RECURSIVE ItoaNat(_)
ItoaNat(n) ==
    IF n < 10 THEN << Digits[n + 1] >>
    ELSE ItoaNat(n \div 10) \o << Digits[(n % 10) + 1] >>

\* strconv.Itoa / the %d verb of fmt.Sprintf
Itoa(n) == IF n < 0 THEN << "-" >> \o ItoaNat(-n) ELSE ItoaNat(n)

\* excel.IndexToColumn: 0 -> A, 25 -> Z, 26 -> AA; the loop does not run for
\* a negative index and the result is the empty string.
RECURSIVE IndexToColumn(_)
IndexToColumn(n) ==
    IF n < 0 THEN << >>
    ELSE IndexToColumn((n \div 26) - 1) \o << Letters[(n % 26) + 1] >>

\* excel.CellName: fmt.Sprintf("%s%d", IndexToColumn(col), row+1)
CellName(row, col) == IndexToColumn(col) \o Itoa(row + 1)

IsLetter(s) == \E i \in 1 .. 26 : Letters[i] = s
IsDigit(s) == \E i \in 1 .. 10 : Digits[i] = s
LetterIndex(s) == CHOOSE i \in 1 .. 26 : Letters[i] = s
DigitValue(s) == (CHOOSE i \in 1 .. 10 : Digits[i] = s) - 1

RECURSIVE ColumnNameToNumber(_)
\* excelize.ColumnNameToNumber: "A" -> 1, "Z" -> 26, "AA" -> 27
ColumnNameToNumber(name) ==
    IF name = << >> THEN 0
    ELSE ColumnNameToNumber(SubSeq(name, 1, Len(name) - 1)) * 26
            + LetterIndex(name[Len(name)])

RECURSIVE Atoi(_)
Atoi(ds) ==
    IF ds = << >> THEN 0
    ELSE Atoi(SubSeq(ds, 1, Len(ds) - 1)) * 10 + DigitValue(ds[Len(ds)])

\* The length of the leading run of letters of a cell reference.
LetterPrefix(name) ==
    CHOOSE k \in 0 .. Len(name) :
        /\ \A i \in 1 .. k : IsLetter(name[i])
        /\ k < Len(name) => ~IsLetter(name[k + 1])

\* excelize.CellNameToCoordinates: a cell reference is a non-empty run of
\* letters followed by a decimal row number >= 1; anything else is rejected.
ValidCellName(name) ==
    LET k == LetterPrefix(name)
    IN  /\ k >= 1
        /\ k < Len(name)
        /\ \A i \in (k + 1) .. Len(name) : IsDigit(name[i])
        /\ Atoi(SubSeq(name, k + 1, Len(name))) >= 1

\* 0-based row and column of a valid cell reference.
CellRow(name) == Atoi(SubSeq(name, LetterPrefix(name) + 1, Len(name))) - 1
CellCol(name) == ColumnNameToNumber(SubSeq(name, 1, LetterPrefix(name))) - 1

Max(a, b) == IF a > b THEN a ELSE b
Min(a, b) == IF a < b THEN a ELSE b

-----------------------------------------------------------------------------
(* The workbook: what the handlers reach through *excelize.File.           *)
(* A cell holds its text v, its formula f and its style handle s.  A sheet *)
(* holds its rows (ragged), its merged ranges (0-based, inclusive) and the *)
(* column widths set on it.  A file holds its sheets in GetSheetList order *)
(* and the number of style handles allocated in it.                        *)

BlankCell == [v |-> << >>, f |-> << >>, s |-> 0]

\* A sequence given as a function, as the tuple of its elements.
AsTuple(seq) == SubSeq(seq, 1, Len(seq))

PadRow(row, n) ==
    IF Len(row) >= n THEN row
    ELSE row \o AsTuple([i \in 1 .. (n - Len(row)) |-> BlankCell])

PadRows(rows, n) ==
    IF Len(rows) >= n THEN rows
    ELSE rows \o AsTuple([i \in 1 .. (n - Len(rows)) |-> << >>])

\* The cell at 0-based (r, c); a cell that was never written is blank.
CellAt(sheetRec, r, c) ==
    IF r >= 0 /\ c >= 0 /\ r < Len(sheetRec.rows)
        /\ c < Len(sheetRec.rows[r + 1])
    THEN sheetRec.rows[r + 1][c + 1]
    ELSE BlankCell

\* rows with the cells of the rectangle (r1, c1) .. (r2, c2) replaced by
\* Upd(cell), the grid growing to hold the rectangle.
UpdateRect(rows, r1, c1, r2, c2, Upd(_)) ==
    LET padded == PadRows(rows, r2 + 1)
    IN  SubSeq(padded, 1, r1)
        \o AsTuple([k \in 1 .. (r2 - r1 + 1) |->
                LET row == PadRow(padded[r1 + k], c2 + 1)
                IN  SubSeq(row, 1, c1)
                    \o AsTuple([j \in 1 .. (c2 - c1 + 1) |-> Upd(row[c1 + j])])
                    \o SubSeq(row, c2 + 2, Len(row))])
        \o SubSeq(padded, r2 + 2, Len(padded))

\* The state threaded through one handler call: the file f, the error err
\* the call has run into (Nil while it has not; an error is the sequence of
\* the tokens of its message), the external operation the spreadsheet
\* capability rejects during this call (fault; "none": no rejection), the
\* style manager in use (sm), the style handle last returned (ret) and the
\* state of the registry's formula handler (h).  Every operation takes the
\* message its caller wraps a failure in.
Fail(st, msg, cause) ==
    [st EXCEPT !.err = IF msg = << >> THEN << cause >>
                       ELSE msg \o << ":", cause >>]

\* fmt.Errorf("msg: %w", err) around a call that took before to after.
Wrap(before, after, msg) ==
    IF before.err = Nil /\ after.err # Nil
    THEN [after EXCEPT !.err = msg \o << ":" >> \o @]
    ELSE after

WithRows(st, sheet, rows) == [st EXCEPT !.f.sh[sheet].rows = rows]

\* excelize SetCellStr: writes the text and drops the cell's formula.
SetCellStr(st, msg, sheet, name, text) ==
    IF st.err # Nil THEN st
    ELSE IF st.fault = "SetCellStr" THEN Fail(st, msg, "rejected")
    ELSE IF ~ValidCellName(name) THEN Fail(st, msg, "invalid cell name")
    ELSE LET r == CellRow(name)
             c == CellCol(name)
         IN  WithRows(st, sheet,
                UpdateRect(st.f.sh[sheet].rows, r, c, r, c,
                    LAMBDA cell : [cell EXCEPT !.v = text, !.f = << >>]))

\* excelize SetCellInt: the cell then reads as the decimal text of n.
SetCellInt(st, msg, sheet, name, n) ==
    IF st.err # Nil THEN st
    ELSE IF st.fault = "SetCellInt" THEN Fail(st, msg, "rejected")
    ELSE IF ~ValidCellName(name) THEN Fail(st, msg, "invalid cell name")
    ELSE LET r == CellRow(name)
             c == CellCol(name)
         IN  WithRows(st, sheet,
                UpdateRect(st.f.sh[sheet].rows, r, c, r, c,
                    LAMBDA cell : [cell EXCEPT !.v = Itoa(n), !.f = << >>]))

\* excelize SetCellFormula: stores the formula text, the cached text stays.
SetCellFormula(st, msg, sheet, name, formula) ==
    IF st.err # Nil THEN st
    ELSE IF st.fault = "SetCellFormula" THEN Fail(st, msg, "rejected")
    ELSE IF ~ValidCellName(name) THEN Fail(st, msg, "invalid cell name")
    ELSE LET r == CellRow(name)
             c == CellCol(name)
         IN  WithRows(st, sheet,
                UpdateRect(st.f.sh[sheet].rows, r, c, r, c,
                    LAMBDA cell : [cell EXCEPT !.f = formula]))

\* excelize SetCellStyle: the style handle on every cell of the range.
SetCellStyle(st, msg, sheet, topLeft, bottomRight, styleID) ==
    IF st.err # Nil THEN st
    ELSE IF st.fault = "SetCellStyle" THEN Fail(st, msg, "rejected")
    ELSE IF ~ValidCellName(topLeft) \/ ~ValidCellName(bottomRight)
         THEN Fail(st, msg, "invalid cell name")
    ELSE LET r1 == Min(CellRow(topLeft), CellRow(bottomRight))
             r2 == Max(CellRow(topLeft), CellRow(bottomRight))
             c1 == Min(CellCol(topLeft), CellCol(bottomRight))
             c2 == Max(CellCol(topLeft), CellCol(bottomRight))
         IN  WithRows(st, sheet,
                UpdateRect(st.f.sh[sheet].rows, r1, c1, r2, c2,
                    LAMBDA cell : [cell EXCEPT !.s = styleID]))

\* excelize GetCellStyle; the handlers drop its error, so a bad reference
\* reads as style 0.
GetCellStyle(st, sheet, name) ==
    IF ValidCellName(name)
    THEN CellAt(st.f.sh[sheet], CellRow(name), CellCol(name)).s
    ELSE 0

\* excelize NewStyle: a fresh style handle of the file.
NewStyle(st, msg) ==
    IF st.err # Nil THEN st
    ELSE IF st.fault = "NewStyle" THEN Fail(st, msg, "rejected")
    ELSE [st EXCEPT !.f.nstyles = @ + 1]

\* A merged range or a width range after n columns were inserted before
\* 0-based column col.
ShiftColsOfMerge(m, col, n) ==
    [m EXCEPT !.c1 = IF @ >= col THEN @ + n ELSE @,
              !.c2 = IF @ >= col THEN @ + n ELSE @]

\* excelize InsertCols: n blank columns before column colName.
InsertCols(st, msg, sheet, colName, n) ==
    IF st.err # Nil THEN st
    ELSE IF st.fault = "InsertCols" THEN Fail(st, msg, "rejected")
    ELSE IF colName = << >> \/ \E i \in 1 .. Len(colName) : ~IsLetter(colName[i])
         THEN Fail(st, msg, "invalid column name")
    ELSE IF n < 1 THEN Fail(st, msg, "invalid column number")
    ELSE LET col == ColumnNameToNumber(colName) - 1
             old == st.f.sh[sheet]
             blanks == AsTuple([i \in 1 .. n |-> BlankCell])
             rows == AsTuple([i \in 1 .. Len(old.rows) |->
                        IF Len(old.rows[i]) > col
                        THEN SubSeq(old.rows[i], 1, col) \o blanks
                                \o SubSeq(old.rows[i], col + 1, Len(old.rows[i]))
                        ELSE old.rows[i]])
             merges == { ShiftColsOfMerge(m, col, n) : m \in old.merges }
         IN  [st EXCEPT !.f.sh[sheet].rows = rows,
                        !.f.sh[sheet].merges = merges]

ShiftRowsOfMerge(m, row, n) ==
    [m EXCEPT !.r1 = IF @ >= row THEN @ + n ELSE @,
              !.r2 = IF @ >= row THEN @ + n ELSE @]

\* excelize InsertRows: n blank rows before 1-based row number row1.
InsertRows(st, msg, sheet, row1, n) ==
    IF st.err # Nil THEN st
    ELSE IF st.fault = "InsertRows" THEN Fail(st, msg, "rejected")
    ELSE IF row1 < 1 THEN Fail(st, msg, "invalid row number")
    ELSE IF n < 1 THEN Fail(st, msg, "invalid parameter")
    ELSE LET r == row1 - 1
             old == st.f.sh[sheet]
             rows == IF r < Len(old.rows)
                     THEN SubSeq(old.rows, 1, r)
                            \o AsTuple([i \in 1 .. n |-> << >>])
                            \o SubSeq(old.rows, r + 1, Len(old.rows))
                     ELSE old.rows
             merges == { ShiftRowsOfMerge(m, r, n) : m \in old.merges }
         IN  [st EXCEPT !.f.sh[sheet].rows = rows,
                        !.f.sh[sheet].merges = merges]

\* excelize RemoveRow: deletes 1-based row number row1, the rows below move
\* up; a merged range that lay in that row alone disappears.
RemoveRow(st, msg, sheet, row1) ==
    IF st.err # Nil THEN st
    ELSE IF st.fault = "RemoveRow" THEN Fail(st, msg, "rejected")
    ELSE IF row1 < 1 THEN Fail(st, msg, "invalid row number")
    ELSE LET r == row1 - 1
             old == st.f.sh[sheet]
             rows == IF r < Len(old.rows)
                     THEN SubSeq(old.rows, 1, r)
                            \o SubSeq(old.rows, r + 2, Len(old.rows))
                     ELSE old.rows
             kept == { m \in old.merges : ~(m.r1 = r /\ m.r2 = r) }
             merges == { [m EXCEPT !.r1 = IF @ > r THEN @ - 1 ELSE @,
                                   !.r2 = IF @ >= r THEN @ - 1 ELSE @] :
                         m \in kept }
         IN  [st EXCEPT !.f.sh[sheet].rows = rows,
                        !.f.sh[sheet].merges = merges]

\* excelize MergeCell: merges the range; a single cell is no range.
MergeCell(st, msg, sheet, topLeft, bottomRight) ==
    IF st.err # Nil THEN st
    ELSE IF st.fault = "MergeCell" THEN Fail(st, msg, "rejected")
    ELSE IF ~ValidCellName(topLeft) \/ ~ValidCellName(bottomRight)
         THEN Fail(st, msg, "invalid cell name")
    ELSE LET m == [r1 |-> Min(CellRow(topLeft), CellRow(bottomRight)),
                   c1 |-> Min(CellCol(topLeft), CellCol(bottomRight)),
                   r2 |-> Max(CellRow(topLeft), CellRow(bottomRight)),
                   c2 |-> Max(CellCol(topLeft), CellCol(bottomRight))]
         IN  IF m.r1 = m.r2 /\ m.c1 = m.c2 THEN st
             ELSE [st EXCEPT !.f.sh[sheet].merges = @ \cup {m}]

\* excelize SetColWidth on the columns startCol .. endCol.
SetColWidth(st, msg, sheet, startCol, endCol, width) ==
    IF st.err # Nil THEN st
    ELSE IF st.fault = "SetColWidth" THEN Fail(st, msg, "rejected")
    ELSE IF startCol = << >> \/ endCol = << >>
         THEN Fail(st, msg, "invalid column name")
    ELSE LET a == ColumnNameToNumber(startCol) - 1
             b == ColumnNameToNumber(endCol) - 1
         IN  [st EXCEPT !.f.sh[sheet].widths =
                    @ \cup {[min |-> Min(a, b), max |-> Max(a, b), w |-> width]}]

RECURSIVE TrimRow(_)
\* A row of texts without its trailing empty cells.
TrimRow(texts) ==
    IF texts # << >> /\ texts[Len(texts)] = << >>
    THEN TrimRow(SubSeq(texts, 1, Len(texts) - 1))
    ELSE texts

RECURSIVE TrimRows(_)
TrimRows(grid) ==
    IF grid # << >> /\ grid[Len(grid)] = << >>
    THEN TrimRows(SubSeq(grid, 1, Len(grid) - 1))
    ELSE grid

\* excelize GetRows: the sheet as a grid of cell texts, without the trailing
\* empty cells of each row and the trailing empty rows.
GetRows(file, sheet) ==
    LET rows == file.sh[sheet].rows
    IN  TrimRows(AsTuple([i \in 1 .. Len(rows) |->
            TrimRow(AsTuple([j \in 1 .. Len(rows[i]) |-> rows[i][j].v]))]))

-----------------------------------------------------------------------------
(* The clock and the caller's data. *)

VARIABLES
    days,        \* what currentMonthDays() returns during this run
    registry,    \* Registry.handlers of the pass
    file,        \* the workbook in memory
    pc,          \* "sheet", "scan", "write", "done" or "failed"
    sheetIdx,    \* index into GetSheetList of the sheet being processed
    rows,        \* processSheet's rows: the grid GetRows returned
    row,         \* processSheet's loop variables, 0-based
    col,
    hstate,      \* fields sm and removedRows of the pass's combFormulaHandler
    result,      \* what process returned: the bytes or the error
    pending,     \* the registries of the passes still to run on the bytes
    out,         \* main: the output file on disk and the exit status
    ghost        \* history: the dispatches made, the file before the last

vars ==
    << days, registry, file, pc, sheetIdx, rows, row, col, hstate, result,
       pending, out, ghost >>

\* time.Now() lies in a month of 28, 29, 30 or 31 days.
DayCounts == {28, 29, 30, 31}

currentMonthDays == days

AttendanceSymbols == << "8", "W", "T", "D", "L", "A", "P" >>

\* The attendance of the i-th employee: n entries.
AttendanceOf(i, n) ==
    AsTuple([j \in 1 .. n |->
        << AttendanceSymbols[((i + j) % Len(AttendanceSymbols)) + 1] >>])

\* domain.Employee
EmployeeOf(i, n) ==
    [Id |-> i,
     FullName |-> << "Name" >> \o Itoa(i),
     TableID |-> << "0", "0" >> \o Itoa(i),
     JobPosition |-> << "Engineer" >>,
     Attendance |-> AttendanceOf(i, n)]

\* The employee lists supplied: 0 .. MaxEmployees employees, each with a
\* full month of attendance or each with ShortAttendance entries.
EmployeeLists(d) ==
    { AsTuple([i \in 1 .. n |-> EmployeeOf(i, a)]) :
        n \in 0 .. MaxEmployees, a \in {d, ShortAttendance} }

-----------------------------------------------------------------------------
(* template/styles.go: the style cache. *)

\* NewStyleManager(f): an empty cache.
NewStyleManager(st) == [st EXCEPT !.sm = {}]

\* A manager that keeps its handles but never looks one up.
GetOrCreateStyleUncached(st, msg, name) ==
    IF st.err # Nil THEN st
    ELSE LET made == NewStyle(st, msg)
         IN  IF made.err # Nil THEN made
             ELSE [made EXCEPT !.ret = made.f.nstyles,
                               !.sm = @ \cup {[name |-> name,
                                               id |-> made.f.nstyles]}]

\* StyleManager get-or-create of the style named name: the handle is left
\* in ret.
GetOrCreateStyle(st, msg, name) ==
    IF st.err # Nil THEN st
    ELSE IF \E e \in st.sm : e.name = name
    THEN [st EXCEPT !.ret = (CHOOSE e \in st.sm : e.name = name).id]
    ELSE LET made == NewStyle(st, msg)
         IN  IF made.err # Nil THEN made
             ELSE [made EXCEPT !.ret = made.f.nstyles,
                               !.sm = @ \cup {[name |-> name,
                                               id |-> made.f.nstyles]}]

\* (*StyleManager).Centered
Centered(st, msg) == GetOrCreateStyle(st, msg, "centered")

-----------------------------------------------------------------------------
(* template/handlers.go: the employee rows. *)

\* var columns: the fixed employee columns, in order.
columns == << "Id", "FullName", "TableID", "JobPosition" >>

\* columnDef.value
ColumnValue(def, emp) ==
    CASE def = "Id" -> Itoa(emp.Id)
      [] def = "FullName" -> emp.FullName
      [] def = "TableID" -> emp.TableID
      [] def = "JobPosition" -> emp.JobPosition

AttendanceStartCol(employeeCol) == employeeCol + Len(columns)

RECURSIVE writeFixedColumns(_, _, _, _, _, _)
\* writeEmployeeRow, the loop over columns, from index c on
writeFixedColumns(st, sheet, r, c0, emp, c) ==
    IF st.err # Nil \/ c >= Len(columns) THEN st
    ELSE LET cell == CellName(r, c0 + c)
             s1 == SetCellStr(st, << "col" >> \o Itoa(c), sheet, cell,
                              ColumnValue(columns[c + 1], emp))
             s2 == Centered(s1, << "style col" >> \o Itoa(c))
             s3 == SetCellStyle(s2, << "set style col" >> \o Itoa(c), sheet,
                                cell, cell, s2.ret)
         IN  writeFixedColumns(s3, sheet, r, c0, emp, c + 1)

\* Attendance written from the last fixed column on.
attendanceColOverlapping(c0, i) == c0 + Len(columns) - 1 + i

\* The column of the i-th attendance value of a row whose section starts
\* at column c0.
attendanceCol(c0, i) == c0 + Len(columns) + i

RECURSIVE writeAttendance(_, _, _, _, _, _, _)
\* writeEmployeeRow, the loop over emp.Attendance, from index i on
writeAttendance(st, sheet, r, c0, emp, centeredStyle, i) ==
    IF st.err # Nil \/ i >= Len(emp.Attendance) THEN st
    ELSE LET cell == CellName(r, attendanceCol(c0, i))
             s1 == SetCellStr(st, << "attendance" >> \o Itoa(i), sheet, cell,
                              emp.Attendance[i + 1])
             s2 == SetCellStyle(s1, << "attendance style" >> \o Itoa(i),
                                sheet, cell, cell, centeredStyle)
         IN  writeAttendance(s2, sheet, r, c0, emp, centeredStyle, i + 1)

writeEmployeeRow(st, sheet, r, c0, emp) ==
    LET s1 == writeFixedColumns(st, sheet, r, c0, emp, 0)
        s2 == Centered(s1, << "attendance style" >>)
    IN  writeAttendance(s2, sheet, r, c0, emp, s2.ret, 0)

\* Employee rows that begin one row lower.
employeeRowBelow(r, i) == r + i + 1

\* The row the i-th employee (0-based) is written into.
employeeRow(r, i) == r + i

RECURSIVE writeEmployeeRows(_, _, _, _, _, _)
\* writeEmployees, the loop over employees, from index i on
writeEmployeeRows(st, sheet, r, c0, employees, i) ==
    IF st.err # Nil \/ i >= Len(employees) THEN st
    ELSE LET emp == employees[i + 1]
             s1 == Wrap(st,
                        writeEmployeeRow(st, sheet, employeeRow(r, i), c0, emp),
                        << "employee" >> \o Itoa(emp.Id))
         IN  writeEmployeeRows(s1, sheet, r, c0, employees, i + 1)

\* A handler that undoes what it did to the file when it fails.
writeEmployeesAtomic(st, sheet, r, c0, employees) ==
    LET s1 == RemoveRow(st, << "remove template row" >>, sheet, r + 1)
        s2 == InsertRows(s1, << "insert rows" >>, sheet, r + 1, Len(employees))
        s3 == IF s2.err # Nil THEN s2 ELSE NewStyleManager(s2)
        done == writeEmployeeRows(s3, sheet, r, c0, employees, 0)
    IN  IF done.err # Nil THEN [st EXCEPT !.err = done.err] ELSE done

writeEmployees(st, sheet, r, c0, employees) ==
    LET s1 == RemoveRow(st, << "remove template row" >>, sheet, r + 1)
        s2 == InsertRows(s1, << "insert rows" >>, sheet, r + 1, Len(employees))
        s3 == IF s2.err # Nil THEN s2 ELSE NewStyleManager(s2)
    IN  writeEmployeeRows(s3, sheet, r, c0, employees, 0)

-----------------------------------------------------------------------------
(* template/handlers.go: the formula handler. *)

\* The FormulaFn values: what CountIFFormula(symbol, value), SumNumFormula()
\* and CountNumFormula() return, and nil.
CountIFFormula(symbol, value) ==
    [kind |-> "CountIF", symbol |-> symbol, value |-> value]
SumNumFormula == [kind |-> "SumNum"]
CountNumFormula == [kind |-> "CountNum"]
NilFormulaFn == [kind |-> "nil"]

\* Generators that leave the weight out of the count.
applyUnweighted(fn, cellRange) ==
    CASE fn.kind = "CountIF" ->
            << "SUMPRODUCT((" >> \o cellRange \o << "=\"" >> \o fn.symbol
                \o << "\")*" >> \o Itoa(1) \o << ")" >>
      [] fn.kind = "SumNum" ->
            << "IFERROR(SUMPRODUCT(IFERROR(VALUE(" >> \o cellRange
                \o << "),0)),0)" >>
      [] fn.kind = "CountNum" ->
            << "IFERROR(SUMPRODUCT(IFERROR(VALUE(" >> \o cellRange
                \o << ")*0+1,0)),0)" >>

\* k.FormulaFn(attRange): the formula text each generator formats.
ApplyFormulaFn(fn, cellRange) ==
    CASE fn.kind = "CountIF" ->
            << "SUMPRODUCT((" >> \o cellRange \o << "=\"" >> \o fn.symbol
                \o << "\")*" >> \o Itoa(fn.value) \o << ")" >>
      [] fn.kind = "SumNum" ->
            << "IFERROR(SUMPRODUCT(IFERROR(VALUE(" >> \o cellRange
                \o << "),0)),0)" >>
      [] fn.kind = "CountNum" ->
            << "IFERROR(SUMPRODUCT(IFERROR(VALUE(" >> \o cellRange
                \o << ")*0+1,0)),0)" >>

RECURSIVE JoinPlus(_)
\* strings.Join(parts, "+")
JoinPlus(parts) ==
    IF parts = << >> THEN << >>
    ELSE IF Len(parts) = 1 THEN parts[1]
    ELSE parts[1] \o << "+" >> \o JoinPlus(Tail(parts))

\* A handler that stops at the first key found that has a generator.
firstPartOnly(keys, value, attRange, i) ==
    LET found == { j \in i .. Len(keys) :
                    Contains(value, keys[j].Key)
                        /\ keys[j].FormulaFn.kind # "nil" }
    IN  IF found = {}
        THEN [parts |-> << >>,
              matched |-> \E j \in i .. Len(keys) :
                            Contains(value, keys[j].Key)]
        ELSE [parts |-> << ApplyFormulaFn(
                            keys[CHOOSE j \in found :
                                    \A k \in found : j <= k].FormulaFn,
                            attRange) >>,
              matched |-> TRUE]

RECURSIVE formulaParts(_, _, _, _)
\* buildFormula, the loop over h.keys from index i (1-based) on: the parts
\* collected and whether a key matched.
formulaParts(keys, value, attRange, i) ==
    IF i > Len(keys) THEN [parts |-> << >>, matched |-> FALSE]
    ELSE LET rest == formulaParts(keys, value, attRange, i + 1)
             k == keys[i]
         IN  IF ~Contains(value, k.Key) THEN rest
             ELSE [parts |-> IF k.FormulaFn.kind # "nil"
                             THEN << ApplyFormulaFn(k.FormulaFn, attRange) >>
                                    \o rest.parts
                             ELSE rest.parts,
                   matched |-> TRUE]

\* A buildFormula that wraps whatever it has collected, even nothing.
buildFormulaAlways(keys, value, attRange) ==
    [formula |-> << "IF(" >>
                    \o JoinPlus(formulaParts(keys, value, attRange, 1).parts)
                    \o << "=0,\"\",(" >>
                    \o JoinPlus(formulaParts(keys, value, attRange, 1).parts)
                    \o << "))" >>,
     matched |-> formulaParts(keys, value, attRange, 1).matched]

\* combFormulaHandler.buildFormula
buildFormula(keys, value, attRange) ==
    LET got == formulaParts(keys, value, attRange, 1)
        combined == JoinPlus(got.parts)
    IN  IF Len(got.parts) = 0
        THEN [formula |-> << >>, matched |-> got.matched]
        ELSE [formula |-> << "IF(" >> \o combined \o << "=0,\"\",(" >>
                            \o combined \o << "))" >>,
              matched |-> TRUE]

\* A range one column wider.
attRangeWider(h, empRow) ==
    CellName(empRow, h.attStart) \o << ":" >>
        \o CellName(empRow, h.attStart + currentMonthDays)

\* A range taken one row lower.
attRangeBelow(h, empRow) ==
    CellName(empRow + 1, h.attStart) \o << ":" >>
        \o CellName(empRow + 1, h.attStart + currentMonthDays - 1)

\* The attendance range of employee row empRow.
attRangeOf(h, empRow) ==
    CellName(empRow, h.attStart) \o << ":" >>
        \o CellName(empRow, h.attStart + currentMonthDays - 1)

\* A block cut off at the first row of the sheet.
firstEmpRowClamped(h, r) == Max(r - h.employeeCount, 0)

\* A block that begins one row higher.
firstEmpRowAbove(h, r) == r - h.employeeCount - 1

\* The first row of the block the formulas go into.
firstEmpRow(h, r) == r - h.employeeCount

RECURSIVE writeFormulas(_, _, _, _, _, _, _, _)
\* combFormulaHandler.handle, the loop over the employee rows from empRow on
writeFormulas(st, h, sheet, r, c, value, centeredStyle, empRow) ==
    IF st.err # Nil \/ empRow >= r THEN st
    ELSE LET built == buildFormula(h.keys, value, attRangeOf(h, empRow))
             cell == CellName(empRow, c)
             s1 == IF built.formula # << >>
                   THEN SetCellFormula(st, << "set formula at" >> \o cell,
                                       sheet, cell, built.formula)
                   ELSE st
             s2 == SetCellStyle(s1, << "set style at" >> \o cell, sheet,
                                cell, cell, centeredStyle)
         IN  IF ~built.matched
             THEN writeFormulas(st, h, sheet, r, c, value, centeredStyle,
                                empRow + 1)
             ELSE writeFormulas(s2, h, sheet, r, c, value, centeredStyle,
                                empRow + 1)

\* combFormulaHandler.handle up to the end of its loop: the lazily made
\* style manager and set of removed rows, the centered style, the formulas.
handleFormulas(st, h, sheet, r, c, value) ==
    LET s0 == [st EXCEPT !.sm = IF st.h.smMade THEN st.h.sm ELSE {},
                         !.h.smMade = TRUE]
        s1 == Centered(s0, << "formula cell style" >>)
        s2 == writeFormulas(s1, h, sheet, r, c, value, s1.ret,
                            firstEmpRow(h, r))
    IN  [s2 EXCEPT !.h.sm = s2.sm]

\* fmt.Sprintf("%s:%d", sheet, row)
removedKey(sheet, r) == << sheet, ":" >> \o Itoa(r)

\* A handler that removes the row of every placeholder it handles.
handleRemovingAlways(st, h, sheet, r, c, value) ==
    RemoveRow(handleFormulas(st, h, sheet, r, c, value),
              << "remove formula row" >>, sheet, r + 1)

\* A handler that writes the formulas and leaves the placeholder's row.
handleKeepingRow(st, h, sheet, r, c, value) ==
    handleFormulas(st, h, sheet, r, c, value)

\* combFormulaHandler.handle as it stands: the formula row is removed on
\* the first placeholder handled in it.
handle(st, h, sheet, r, c, value) ==
    LET s1 == handleFormulas(st, h, sheet, r, c, value)
        key == removedKey(sheet, r)
    IN  IF s1.err # Nil THEN s1
        ELSE IF key \in s1.h.removedRows THEN s1
        ELSE RemoveRow([s1 EXCEPT !.h.removedRows = @ \cup {key}],
                       << "remove formula row" >>, sheet, r + 1)

\* combFormulaHandler.handle as it stood before: the placeholder cell is
\* cleared, the error of SetCellStr returned as it is.
handleClearing(st, h, sheet, r, c, value) ==
    LET s1 == handleFormulas(st, h, sheet, r, c, value)
    IN  SetCellStr(s1, << >>, sheet, CellName(r, c), << >>)

-----------------------------------------------------------------------------
(* template/handlers.go: {{days}} and {{working_time}}. *)

RECURSIVE mergeHeaderRows(_, _, _, _, _)
\* handleDays, the loop over the header rows 0 and 1, from headerRow on
mergeHeaderRows(st, sheet, c, d, headerRow) ==
    IF st.err # Nil \/ headerRow > 1 THEN st
    ELSE LET topLeft == CellName(headerRow, c)
             bottomRight == CellName(headerRow, c + d - 1)
             headerStyleID == GetCellStyle(st, sheet, topLeft)
             s1 == MergeCell(st, << "merge row" >> \o Itoa(headerRow), sheet,
                             topLeft, bottomRight)
             s2 == IF headerStyleID # 0
                   THEN SetCellStyle(s1, << "header style row" >>
                                            \o Itoa(headerRow),
                                     sheet, topLeft, bottomRight, headerStyleID)
                   ELSE s1
         IN  mergeHeaderRows(s2, sheet, c, d, headerRow + 1)

RECURSIVE writeDayNumbers(_, _, _, _, _, _)
\* handleDays, the loop writing the day numbers, from index i on
writeDayNumbers(st, sheet, r, c, d, i) ==
    IF st.err # Nil \/ i >= d THEN st
    ELSE writeDayNumbers(
            SetCellInt(st, << "set day" >> \o Itoa(i + 1), sheet,
                       CellName(r, c + i), i + 1),
            sheet, r, c, d, i + 1)

\* One column inserted per day.
insertedOnePerDay(d) == d

\* The number of columns handleDays inserts.
insertedDayCols(d) == d - 1

handleDays(st, sheet, r, c, value) ==
    LET d == currentMonthDays
        s1 == InsertCols(st, << "insert cols" >>, sheet, IndexToColumn(c + 1),
                         insertedDayCols(d))
        s2 == mergeHeaderRows(s1, sheet, c, d, 0)
        s3 == writeDayNumbers(s2, sheet, r, c, d, 0)
        styleID == GetCellStyle(s3, sheet, CellName(r, c))
        s4 == SetCellStyle(s3, << "set style" >>, sheet, CellName(r, c),
                           CellName(r, c + d - 1), styleID)
    IN  SetColWidth(s4, << "set col width" >>, sheet, IndexToColumn(c),
                    IndexToColumn(c + d - 1), 4)

RECURSIVE ReplaceAll(_, _, _)
\* strings.ReplaceAll(s, old, new) for a non-empty old
ReplaceAll(s, old, new) ==
    IF Len(s) < Len(old) THEN s
    ELSE IF SubSeq(s, 1, Len(old)) = old
    THEN new \o ReplaceAll(SubSeq(s, Len(old) + 1, Len(s)), old, new)
    ELSE << s[1] >> \o ReplaceAll(Tail(s), old, new)

\* domain.KeyMap["{{working_time}}"]
KeyMapWorkingTime == << "working time label" >>

handleWorkingTime(st, sheet, r, c, value) ==
    LET cell == CellName(r, c)
        styleID == GetCellStyle(st, sheet, cell)
        replaced == ReplaceAll(value, << "{{working_time}}" >>,
                               KeyMapWorkingTime)
        s1 == SetCellStr(st, << "set working_time" >>, sheet, cell, replaced)
    IN  IF styleID # 0
        THEN SetCellStyle(s1, << "restore style" >>, sheet, cell, cell, styleID)
        ELSE s1

-----------------------------------------------------------------------------
(* template/handlers.go: ReplaceHandler. *)

\* NewReplaceHandler: no pairs.
NewReplaceHandler == << >>

\* (*ReplaceHandler).Add
Add(pairs, key, val) == Append(pairs, [key |-> key, val |-> val])

RECURSIVE replacePairs(_, _, _)
\* apply, the loop over h.pairs, from pair i (1-based) on
replacePairs(text, pairs, i) ==
    IF i > Len(pairs) THEN text
    ELSE replacePairs(ReplaceAll(text, pairs[i].key, pairs[i].val), pairs,
                      i + 1)

\* A handler that replaces the key that triggered it and no other.
applyFirstFound(st, h, sheet, r, c, value) ==
    LET cell == CellName(r, c)
        styleID == GetCellStyle(st, sheet, cell)
        found == SelectSeq(h.pairs, LAMBDA p : Contains(value, p.key))
        replaced == replacePairs(value, SubSeq(found, 1, 1), 1)
        s1 == SetCellStr(st, << "replace handler" >>, sheet, cell, replaced)
    IN  IF styleID # 0
        THEN SetCellStyle(s1, << "restore style" >>, sheet, cell, cell, styleID)
        ELSE s1

\* (*ReplaceHandler).apply
apply(st, h, sheet, r, c, value) ==
    LET cell == CellName(r, c)
        styleID == GetCellStyle(st, sheet, cell)
        replaced == replacePairs(value, h.pairs, 1)
        s1 == SetCellStr(st, << "replace handler" >>, sheet, cell, replaced)
    IN  IF styleID # 0
        THEN SetCellStyle(s1, << "restore style" >>, sheet, cell, cell, styleID)
        ELSE s1

-----------------------------------------------------------------------------
(* template/handlers.go: the legend of the marks. *)

\* const totalRows in removePhantomRows
totalRows == 1048576

\* const minPad in writeMarks
minPad == 4

\* numericKey: the key is not empty and every rune of it is a digit.
numericKey(key) ==
    /\ key # << >>
    /\ \A i \in 1 .. Len(key) : IsDigit(key[i])

\* A filter that drops the marks without a key as well.
keptMarksWithKey(marks) ==
    SelectSeq(marks, LAMBDA m : m.Key # << >> /\ ~numericKey(m.Key))

\* writeMarks: the marks whose Key is no plain number, in their order.
keptMarks(marks) == SelectSeq(marks, LAMBDA m : ~numericKey(m.Key))

\* writeMarks: the last column of the merged range that starts at the
\* placeholder, col itself when none does (a sheet holds one range per
\* start cell).
mergeEndColOf(st, sheet, r, c) ==
    LET starting == { m \in st.f.sh[sheet].merges : m.r1 = r /\ m.c1 = c }
    IN  IF starting = {} THEN c ELSE (CHOOSE m \in starting : TRUE).c2

RECURSIVE removePhantomRowsFrom(_, _, _, _, _)
\* removePhantomRows, the loop r := totalRows; r > totalRows-n; r--, from
\* its k-th round (0-based) on
removePhantomRowsFrom(st, msg, sheet, n, k) ==
    IF st.err # Nil \/ k >= n THEN st
    ELSE removePhantomRowsFrom(RemoveRow(st, msg, sheet, totalRows - k), msg,
                               sheet, n, k + 1)

removePhantomRows(st, msg, sheet, n) ==
    removePhantomRowsFrom(st, msg, sheet, n, 0)

\* len([]rune(m.Name)) + len([]rune(m.Key))
markWidth(m) == Len(m.Name) + Len(m.Key)

\* A width that leaves room for the shortest row only.
targetWidthOfShortest(marks) ==
    LET widths == { markWidth(marks[i]) : i \in 1 .. Len(marks) }
    IN  minPad + (IF widths = {} THEN 0
                  ELSE CHOOSE w \in widths : \A v \in widths : w <= v)

\* writeMarks: targetWidth, the greatest width of a mark plus minPad.
targetWidthOf(marks) ==
    LET widths == { markWidth(marks[i]) : i \in 1 .. Len(marks) }
    IN  minPad + (IF widths = {} THEN 0
                  ELSE CHOOSE w \in widths : \A v \in widths : v <= w)

\* strings.Repeat of a one-rune string
Repeat(rune, n) == AsTuple([i \in 1 .. n |-> rune])

\* writeMarks: content of the row of mark m.
markContent(m, targetWidth) ==
    LET padLen == targetWidth - Len(m.Name) - Len(m.Key)
    IN  m.Name \o Repeat("_", IF padLen < 1 THEN 1 ELSE padLen) \o m.Key

\* fmt.Sprintf("marks[%d] what", i)
marksMessage(i, what) == << "marks[" >> \o Itoa(i) \o << "]", what >>

RECURSIVE writeMarkRows(_, _, _, _, _, _, _, _, _)
\* writeMarks, the loop over the marks, from index i on
writeMarkRows(st, sheet, r, c, mergeEndCol, styleID, marks, targetWidth, i) ==
    IF st.err # Nil \/ i >= Len(marks) THEN st
    ELSE LET startCell == CellName(r + i, c)
             endCell == CellName(r + i, mergeEndCol)
             s1 == IF mergeEndCol > c
                   THEN MergeCell(st, marksMessage(i, "merge"), sheet,
                                  startCell, endCell)
                   ELSE st
             s2 == SetCellStr(s1, marksMessage(i, "value"), sheet, startCell,
                              markContent(marks[i + 1], targetWidth))
             s3 == SetCellStyle(s2, marksMessage(i, "style"), sheet,
                                startCell, endCell, styleID)
         IN  writeMarkRows(s3, sheet, r, c, mergeEndCol, styleID, marks,
                           targetWidth, i + 1)

writeMarks(st, sheet, r, c, allMarks) ==
    LET filtered == keptMarks(allMarks)
        styleID == GetCellStyle(st, sheet, CellName(r, c))
        mergeEndCol == mergeEndColOf(st, sheet, r, c)
        s1 == RemoveRow(st, << "marks: remove template row" >>, sheet, r + 1)
        s2 == removePhantomRows(s1, << "marks: clean phantom rows" >>, sheet,
                                Len(filtered))
        s3 == InsertRows(s2, << "marks: insert rows" >>, sheet, r + 1,
                         Len(filtered))
    IN  writeMarkRows(s3, sheet, r, c, mergeEndCol, styleID, filtered,
                      targetWidthOf(filtered), 0)

-----------------------------------------------------------------------------
(* template/handlers.go: the merge codes. *)

\* The number of digits text holds from position i (1-based) on.
digitsFrom(text, i) ==
    CHOOSE k \in 0 .. Len(text) :
        /\ \A j \in i .. (i + k - 1) : j <= Len(text) /\ IsDigit(text[j])
        /\ (i + k <= Len(text)) => ~IsDigit(text[i + k])

\* The length of the match of mergeCodePat, \[(\d+):(\d+)\], that begins at
\* position i of text; 0 when none begins there.
mergeCodeAt(text, i) ==
    IF i > Len(text) \/ text[i] # "[" THEN 0
    ELSE LET a == digitsFrom(text, i + 1)
         IN  IF a = 0 \/ i + 1 + a > Len(text) \/ text[i + 1 + a] # ":" THEN 0
             ELSE LET b == digitsFrom(text, i + 2 + a)
                  IN  IF b = 0 \/ i + 2 + a + b > Len(text)
                            \/ text[i + 2 + a + b] # "]"
                      THEN 0
                      ELSE a + b + 3

\* mergeCodePat.FindStringSubmatch: the leftmost match, as its position and
\* its two groups; position 0 when there is none.
FindStringSubmatch(text) ==
    LET at == { i \in 1 .. Len(text) : mergeCodeAt(text, i) > 0 }
    IN  IF at = {} THEN [pos |-> 0, rows |-> << >>, cols |-> << >>]
        ELSE LET i == CHOOSE i \in at : \A j \in at : i <= j
                 a == digitsFrom(text, i + 1)
                 b == digitsFrom(text, i + 2 + a)
             IN  [pos |-> i,
                  rows |-> SubSeq(text, i + 1, i + a),
                  cols |-> SubSeq(text, i + 2 + a, i + 1 + a + b)]

RECURSIVE stripMergeCodes(_, _)
\* mergeCodePat.ReplaceAllString(text, ""), from position i on
stripMergeCodes(text, i) ==
    IF i > Len(text) THEN << >>
    ELSE IF mergeCodeAt(text, i) > 0
    THEN stripMergeCodes(text, i + mergeCodeAt(text, i))
    ELSE << text[i] >> \o stripMergeCodes(text, i + 1)

RECURSIVE mergeEveryCode(_, _, _, _, _, _)
\* The rectangles of the codes of the text from position i on, merged.
mergeEveryCode(st, sheet, r, c, text, i) ==
    IF st.err # Nil \/ i > Len(text) THEN st
    ELSE IF mergeCodeAt(text, i) = 0
    THEN mergeEveryCode(st, sheet, r, c, text, i + 1)
    ELSE LET a == digitsFrom(text, i + 1)
             b == digitsFrom(text, i + 2 + a)
         IN  mergeEveryCode(
                MergeCell(st, << "merge handler: merge" >>, sheet,
                          CellName(r, c),
                          CellName(r + Atoi(SubSeq(text, i + 1, i + a)),
                                   c + Atoi(SubSeq(text, i + 2 + a,
                                                   i + 1 + a + b)))),
                sheet, r, c, text, i + 1)

\* A handler that merges the rectangle of every code of the text.
handleMergeCodeEach(st, sheet, r, c, value) ==
    LET m == FindStringSubmatch(value)
        cell == CellName(r, c)
        s1 == SetCellStr(st, << "merge handler: set value" >>, sheet, cell,
                         stripMergeCodes(value, 1))
    IN  IF m.pos = 0 THEN st
        ELSE mergeEveryCode(s1, sheet, r, c, value, 1)

\* A handler that merges the extra columns down and the extra rows across.
handleMergeCodeSwapped(st, sheet, r, c, value) ==
    LET m == FindStringSubmatch(value)
        extraRows == Atoi(m.rows)
        extraCols == Atoi(m.cols)
        cell == CellName(r, c)
        styleID == GetCellStyle(st, sheet, cell)
        s1 == SetCellStr(st, << "merge handler: set value" >>, sheet, cell,
                         stripMergeCodes(value, 1))
        bottomRight == CellName(r + extraCols, c + extraRows)
        s2 == MergeCell(s1, << "merge handler: merge" >>, sheet, cell,
                        bottomRight)
    IN  IF m.pos = 0 THEN st
        ELSE IF extraRows = 0 /\ extraCols = 0 THEN s1
        ELSE IF styleID # 0
        THEN SetCellStyle(s2, << "merge handler: style" >>, sheet, cell,
                          bottomRight, styleID)
        ELSE s2

\* A handler that rewrites the text of every cell it is given.
handleMergeCodeWriting(st, sheet, r, c, value) ==
    LET m == FindStringSubmatch(value)
        extraRows == Atoi(m.rows)
        extraCols == Atoi(m.cols)
        cell == CellName(r, c)
        styleID == GetCellStyle(st, sheet, cell)
        s1 == SetCellStr(st, << "merge handler: set value" >>, sheet, cell,
                         stripMergeCodes(value, 1))
        bottomRight == CellName(r + extraRows, c + extraCols)
        s2 == MergeCell(s1, << "merge handler: merge" >>, sheet, cell,
                        bottomRight)
    IN  IF m.pos = 0 THEN SetCellStyle(s1, << >>, sheet, cell, cell, 0)
        ELSE IF extraRows = 0 /\ extraCols = 0 THEN s1
        ELSE IF styleID # 0
        THEN SetCellStyle(s2, << "merge handler: style" >>, sheet, cell,
                          bottomRight, styleID)
        ELSE s2

handleMergeCode(st, sheet, r, c, value) ==
    LET m == FindStringSubmatch(value)
        extraRows == Atoi(m.rows)
        extraCols == Atoi(m.cols)
        cell == CellName(r, c)
        styleID == GetCellStyle(st, sheet, cell)
        s1 == SetCellStr(st, << "merge handler: set value" >>, sheet, cell,
                         stripMergeCodes(value, 1))
        bottomRight == CellName(r + extraRows, c + extraCols)
        s2 == MergeCell(s1, << "merge handler: merge" >>, sheet, cell,
                        bottomRight)
    IN  IF m.pos = 0 THEN st
        ELSE IF extraRows = 0 /\ extraCols = 0 THEN s1
        ELSE IF styleID # 0
        THEN SetCellStyle(s2, << "merge handler: style" >>, sheet, cell,
                          bottomRight, styleID)
        ELSE s2

-----------------------------------------------------------------------------
(* template/registry.go *)

\* template.New
New == << >>

\* Registry.Register
Register(r, pattern, handler) ==
    Append(r, [pattern |-> pattern, handler |-> handler])

RegisterDefaults(r) ==
    Register(Register(r, << "{{days}}" >>, [kind |-> "handleDays"]),
             << "{{working_time}}" >>, [kind |-> "handleWorkingTime"])

RegisterEmployeeHandler(r, employees) ==
    Register(r, << "{{start_process}}" >>,
             [kind |-> "writeEmployees", employees |-> employees])

\* RegisterMarksHandler: writeMarks with the marks, under {{marks_list}}.
RegisterMarksHandler(r, marks) ==
    Register(r, << "{{marks_list}}" >>,
             [kind |-> "writeMarks", marks |-> marks])

\* RegisterMergeHandler: handleMergeCode under "[".
RegisterMergeHandler(r) ==
    Register(r, << "[" >>, [kind |-> "handleMergeCode"])

RECURSIVE registerPairs(_, _, _)
\* (*ReplaceHandler).Register, the loop over h.pairs, from pair i on
registerPairs(r, pairs, i) ==
    IF i > Len(pairs) THEN r
    ELSE registerPairs(Register(r, pairs[i].key,
                                [kind |-> "apply", pairs |-> pairs]),
                       pairs, i + 1)

\* (*ReplaceHandler).Register: apply under every key added.
ReplaceHandlerRegister(pairs, r) == registerPairs(r, pairs, 1)

\* RegisterReplaceHandler: a handler of one pair.
RegisterReplaceHandler(r, key, val) ==
    ReplaceHandlerRegister(Add(NewReplaceHandler, key, val), r)

\* RegisterBorderHandler: the handler of the &1 ... &1 ranges.
RegisterBorderHandler(r) ==
    Register(r, << "&1" >>, [kind |-> "handleBorder"])

RECURSIVE registerKeys(_, _, _, _)
\* RegisterFormulaHandler, the loop over keys from index i (1-based) on
registerKeys(r, h, keys, i) ==
    IF i > Len(keys) THEN r
    ELSE registerKeys(Register(r, keys[i].Key, h), h, keys, i + 1)

\* RegisterFormulaHandler: one combFormulaHandler, its handle method
\* registered under every key; kind names the handle method registered.
RegisterFormulaHandler(r, kind, employeeCount, attStart, keys) ==
    registerKeys(r,
                 [kind |-> kind, employeeCount |-> employeeCount,
                  attStart |-> attStart, keys |-> keys],
                 keys, 1)

\* e.handler(f, sheet, row, col, value)
Invoke(handler, st, sheet, r, c, value) ==
    CASE handler.kind = "handleDays" -> handleDays(st, sheet, r, c, value)
      [] handler.kind = "handleWorkingTime" ->
            handleWorkingTime(st, sheet, r, c, value)
      [] handler.kind = "writeEmployees" ->
            writeEmployees(st, sheet, r, c, handler.employees)
      [] handler.kind = "handle" -> handle(st, handler, sheet, r, c, value)
      [] handler.kind = "handleClearing" ->
            handleClearing(st, handler, sheet, r, c, value)
      [] handler.kind = "apply" -> apply(st, handler, sheet, r, c, value)
      [] handler.kind = "writeMarks" ->
            writeMarks(st, sheet, r, c, handler.marks)
      [] handler.kind = "handleMergeCode" ->
            handleMergeCode(st, sheet, r, c, value)

\* What Process returns after the handler of entry i ran and left st.
afterHandler(st, i) ==
    IF st.err # Nil
    THEN [matched |-> FALSE, st |-> st, invoked |-> << i >>]
    ELSE [matched |-> TRUE, st |-> st, invoked |-> << i >>]

RECURSIVE firstMatchFrom(_, _, _)
\* The first entry from i on whose pattern value contains; 0 when there is
\* none.
firstMatchFrom(r, value, i) ==
    IF i > Len(r) THEN 0
    ELSE IF Contains(value, r[i].pattern) THEN i
    ELSE firstMatchFrom(r, value, i + 1)

RECURSIVE lastMatch(_, _, _)
\* The latest-registered entry, among the first i, whose pattern value
\* contains; 0 when there is none.
lastMatch(r, value, i) ==
    IF i < 1 THEN 0
    ELSE IF Contains(value, r[i].pattern) THEN i
    ELSE lastMatch(r, value, i - 1)

\* A registry in which the latest-registered matching entry wins.
processLatest(r, st, sheet, rw, c, value, i) ==
    IF lastMatch(r, value, Len(r)) = 0
    THEN [matched |-> FALSE, st |-> st, invoked |-> << >>]
    ELSE afterHandler(Invoke(r[lastMatch(r, value, Len(r))].handler, st,
                             sheet, rw, c, value),
                      lastMatch(r, value, Len(r)))

\* A registry that hands a text no pattern matches to its first handler.
processFallback(r, st, sheet, rw, c, value, i) ==
    IF firstMatchFrom(r, value, 1) # 0
    THEN afterHandler(Invoke(r[firstMatchFrom(r, value, 1)].handler, st,
                             sheet, rw, c, value),
                      firstMatchFrom(r, value, 1))
    ELSE IF r = << >>
    THEN [matched |-> FALSE, st |-> st, invoked |-> << >>]
    ELSE afterHandler(Invoke(r[1].handler, st, sheet, rw, c, value), 1)

\* A registry that reports a match whether or not an entry matched.
processReportingMatch(r, st, sheet, rw, c, value, i) ==
    IF firstMatchFrom(r, value, 1) # 0
    THEN afterHandler(Invoke(r[firstMatchFrom(r, value, 1)].handler, st,
                             sheet, rw, c, value),
                      firstMatchFrom(r, value, 1))
    ELSE [matched |-> TRUE, st |-> st, invoked |-> << >>]

RECURSIVE processFrom(_, _, _, _, _, _, _)
\* Registry.Process, the loop over r.handlers from entry i (1-based) on:
\* the matched flag, the state the call leaves (its err is the error
\* returned) and, as history, the entries whose handler was invoked.
processFrom(r, st, sheet, rw, c, value, i) ==
    IF i > Len(r) THEN [matched |-> FALSE, st |-> st, invoked |-> << >>]
    ELSE IF Contains(value, r[i].pattern)
    THEN afterHandler(Invoke(r[i].handler, st, sheet, rw, c, value), i)
    ELSE processFrom(r, st, sheet, rw, c, value, i + 1)

Process(r, st, sheet, rw, c, value) ==
    processFrom(r, st, sheet, rw, c, value, 1)

-----------------------------------------------------------------------------
(* The templates and the registries the passes run with. *)

T(text) == [v |-> text, f |-> << >>, s |-> 0]
Styled(text, style) == [v |-> text, f |-> << >>, s |-> style]

\* An attendance sheet: two header rows, the day-number row with {{days}},
\* the employee template row, the formula row, a footer.
AttendanceSheet ==
    [rows |->
        << << Styled(<< "Report" >>, 1), BlankCell, BlankCell, BlankCell,
              Styled(<< "Days" >>, 1), T(<< "Sum" >>) >>,
           << T(<< "Sub" >>), BlankCell, BlankCell, BlankCell,
              T(<< "Month" >>) >>,
           << T(<< "No" >>), T(<< "Name" >>), T(<< "Tab" >>), T(<< "Job" >>),
              Styled(<< "{{days}}" >>, 2), T(<< "{{working_time}}" >>) >>,
           << Styled(<< "{{start_process}}" >>, 2) >>,
           << BlankCell, BlankCell, BlankCell, BlankCell, BlankCell,
              T(<< "{{t}}", "{{d}}" >>), T(<< "{{num_sum}}" >>),
              T(<< "total", "{{}}" >>) >>,
           << T(<< "Footer" >>) >> >>,
     merges |-> {},
     widths |-> {}]

\* A sheet of notes: cells with gaps, a formula key in its first row, one
\* cell holding two keys of the default handlers.
NotesSheet ==
    [rows |->
        << << T(<< "x" >>), BlankCell, T(<< "{{t}}" >>) >>,
           << BlankCell, T(<< "{{working_time}}", "{{days}}" >>) >> >>,
     merges |-> {},
     widths |-> {}]

EmptySheet == [rows |-> << >>, merges |-> {}, widths |-> {}]

\* A sheet that holds no placeholder of any handler: texts with gaps, an
\* unknown placeholder, styles, a merged range and a column width.
PlainSheet ==
    [rows |->
        << << Styled(<< "Report" >>, 1), BlankCell, T(<< "{{unknown}}" >>) >>,
           << >>,
           << BlankCell, Styled(<< "x" >>, 2), T(<< "y", "z" >>) >> >>,
     merges |-> {[r1 |-> 0, c1 |-> 0, r2 |-> 0, c2 |-> 1]},
     widths |-> {[min |-> 0, max |-> 1, w |-> 4]}]

\* The attendance templates: the attendance sheet and a second sheet.
AttendanceFiles ==
    { [sheets |-> << "Sheet1", "Sheet2" >>,
       sh |-> [n \in {"Sheet1", "Sheet2"} |->
                    IF n = "Sheet1" THEN AttendanceSheet ELSE second],
       nstyles |-> 2] : second \in {NotesSheet, EmptySheet} }

\* A workbook without any placeholder of the handlers.
PlainFile ==
    [sheets |-> << "Sheet1", "Sheet2" >>,
     sh |-> [n \in {"Sheet1", "Sheet2"} |->
                IF n = "Sheet1" THEN PlainSheet ELSE EmptySheet],
     nstyles |-> 2]

Files == AttendanceFiles \cup {PlainFile}

\* The formula keys main.go registers in step2.
FormulaKeys ==
    << [Key |-> << "{{t}}" >>, FormulaFn |-> CountIFFormula(<< "T" >>, 1)],
       [Key |-> << "{{d}}" >>, FormulaFn |-> CountIFFormula(<< "D" >>, 1)],
       [Key |-> << "{{w}}" >>, FormulaFn |-> CountIFFormula(<< "W" >>, 1)],
       [Key |-> << "{{l}}" >>, FormulaFn |-> CountIFFormula(<< "L" >>, 1)],
       [Key |-> << "{{a}}" >>, FormulaFn |-> CountIFFormula(<< "A" >>, 1)],
       [Key |-> << "{{p}}" >>, FormulaFn |-> CountIFFormula(<< "P" >>, 1)],
       [Key |-> << "{{num_sum}}" >>, FormulaFn |-> SumNumFormula],
       [Key |-> << "{{num_count}}" >>, FormulaFn |-> CountNumFormula],
       [Key |-> << "{{}}" >>, FormulaFn |-> NilFormulaFn] >>

\* The registry of the structural pass: the defaults and the employees.
StructuralRegistry(employees) ==
    RegisterEmployeeHandler(RegisterDefaults(New), employees)

\* The registry of the formula pass (main.go step2), with the handle method
\* named by kind.
FormulaRegistry(kind, employeeCount) ==
    RegisterFormulaHandler(New, kind, employeeCount, AttendanceStartCol(0),
                           FormulaKeys)

\* A registry in which {{days}} is registered a second time.
DuplicateRegistry ==
    Register(RegisterDefaults(New), << "{{days}}" >>,
             [kind |-> "handleWorkingTime"])

FormulaKinds == {"handle", "handleClearing"}

\* The passes of a run, in order: each a registry.
Programs(d) ==
    { << StructuralRegistry(e), FormulaRegistry(k, Len(e)) >> :
        e \in EmployeeLists(d), k \in FormulaKinds }
    \cup { << FormulaRegistry(k, n) >> :
            k \in FormulaKinds, n \in 0 .. MaxEmployees }
    \cup { << DuplicateRegistry >> }

-----------------------------------------------------------------------------
(* processor/processor.go: the scanner, one cell at a time. *)

\* The external operations the spreadsheet capability may reject during a
\* handler call.
Faults ==
    {"none", "SetCellStr", "SetCellInt", "SetCellFormula", "SetCellStyle",
     "NewStyle", "InsertCols", "InsertRows", "RemoveRow", "MergeCell",
     "SetColWidth"}

FreshHandlerState == [smMade |-> FALSE, sm |-> {}, removedRows |-> {}]

NoResult == [status |-> "none", bytes |-> << >>, err |-> Nil]

\* main before it ends: no output file, nothing on standard error, no exit
\* status.
NoOutput == [written |-> FALSE, data |-> << >>, stderr |-> Nil, exit |-> -1]

SheetName == file.sheets[sheetIdx]

\* Loops that skip no cell.
neverSkipped(value) == FALSE

\* Whether the loops of processSheet skip the cell: if value == "" continue.
skipped(value) == value = << >>

RECURSIVE nextCell(_, _, _)
\* The first cell at or after (r, c), in the order of the two range loops
\* of processSheet, that is not skipped; r = Len(grid) when there is none.
nextCell(grid, r, c) ==
    IF r >= Len(grid) THEN [r |-> Len(grid), c |-> 0]
    ELSE IF c >= Len(grid[r + 1]) THEN nextCell(grid, r + 1, 0)
    ELSE IF skipped(grid[r + 1][c + 1]) THEN nextCell(grid, r, c + 1)
    ELSE [r |-> r, c |-> c]

\* An error that names the sheet alone.
sheetOnlyError(sheet, r, c, err) == << "sheet", sheet, ":" >> \o err

\* fmt.Errorf("sheet %q: %w", sheet, fmt.Errorf("cell %s: %w", cell, err))
dispatchError(sheet, r, c, err) ==
    << "sheet", sheet, ":", "cell" >> \o CellName(r, c) \o << ":" >> \o err

\* processSheet: rows, err := f.GetRows(sheet)
ReadRows ==
    /\ pc = "sheet"
    /\ LET grid == GetRows(file, SheetName)
           first == nextCell(grid, 0, 0)
       IN  /\ rows' = grid
           /\ row' = first.r
           /\ col' = first.c
           /\ ghost' = [ghost EXCEPT !.snaps = Append(@, grid)]
    /\ pc' = "scan"
    /\ UNCHANGED << out, days, registry, file, sheetIdx, hstate, result,
                    pending >>

\* processSheet: GetRows returned an error.
ReadRowsFails ==
    /\ pc = "sheet"
    /\ pc' = "failed"
    /\ result' = [status |-> "error", bytes |-> << >>,
                  err |-> << "sheet", SheetName, ":", "get rows", ":",
                             "rejected" >>]
    /\ UNCHANGED << out, days, registry, file, sheetIdx, rows, row, col, hstate,
                    pending, ghost >>

RECURSIVE firstMatch(_, _, _)
\* The entry (1-based) Process stops at for value, from entry i on: the
\* first whose pattern value contains; 0 when there is none.
firstMatch(r, value, i) ==
    IF i > Len(r) THEN 0
    ELSE IF Contains(value, r[i].pattern) THEN i
    ELSE firstMatch(r, value, i + 1)

\* The handler method Process calls for value, "none" when no entry
\* matches.
matchedKind(r, value) ==
    IF firstMatch(r, value, 1) = 0 THEN "none"
    ELSE r[firstMatch(r, value, 1)].handler.kind

\* Whether the loops of processSheet have reached a cell whose value the
\* registry hands to a handler of the given kind ("none": to no handler).
reached(kind) ==
    /\ pc = "scan"
    /\ row < Len(rows)
    /\ matchedKind(registry, rows[row + 1][col + 1]) = kind

\* A scanner that reads the rows of the sheet again after every call.
DispatchRereading(kind) ==
    /\ reached(kind)
    /\ \E fault \in Faults :
        \E p \in { Process(registry,
                           [f |-> file, err |-> Nil, fault |-> fault,
                            sm |-> {}, ret |-> 0, h |-> hstate],
                           SheetName, row, col, rows[row + 1][col + 1]) } :
        LET value == rows[row + 1][col + 1]
            grid == IF p.st.err # Nil THEN rows
                    ELSE GetRows(p.st.f, SheetName)
            next == nextCell(grid, row, col + 1)
        IN  /\ fault # "none" => p.st.err # Nil
            /\ file' = p.st.f
            /\ hstate' = p.st.h
            /\ rows' = grid
            /\ ghost' = [ghost EXCEPT
                    !.before = file,
                    !.log = Append(@,
                        [sheet |-> SheetName, row |-> row, col |-> col,
                         value |-> value, invoked |-> p.invoked,
                         matched |-> p.matched, err |-> p.st.err])]
            /\ IF p.st.err # Nil
               THEN /\ pc' = "failed"
                    /\ result' = [status |-> "error", bytes |-> << >>,
                                  err |-> dispatchError(SheetName, row, col,
                                                        p.st.err)]
                    /\ UNCHANGED << row, col >>
               ELSE /\ pc' = "scan"
                    /\ row' = next.r
                    /\ col' = next.c
                    /\ UNCHANGED result
    /\ UNCHANGED << out, days, registry, sheetIdx, pending >>

\* processSheet: p.registry.Process(f, sheet, row, col, value) on the cell
\* the loops have reached.  The capability rejects nothing during the
\* call, or rejects an operation the call makes.  kind is the handler the
\* registry hands the value to.
Dispatch(kind) ==
    /\ reached(kind)
    /\ \E fault \in Faults :
        \E p \in { Process(registry,
                           [f |-> file, err |-> Nil, fault |-> fault,
                            sm |-> {}, ret |-> 0, h |-> hstate],
                           SheetName, row, col, rows[row + 1][col + 1]) } :
        LET value == rows[row + 1][col + 1]
            next == nextCell(rows, row, col + 1)
        IN  /\ fault # "none" => p.st.err # Nil
            /\ file' = p.st.f
            /\ hstate' = p.st.h
            /\ ghost' = [ghost EXCEPT
                    !.before = file,
                    !.log = Append(@,
                        [sheet |-> SheetName, row |-> row, col |-> col,
                         value |-> value, invoked |-> p.invoked,
                         matched |-> p.matched, err |-> p.st.err])]
            /\ IF p.st.err # Nil
               THEN /\ pc' = "failed"
                    /\ result' = [status |-> "error", bytes |-> << >>,
                                  err |-> dispatchError(SheetName, row, col,
                                                        p.st.err)]
                    /\ UNCHANGED << row, col >>
               ELSE /\ pc' = "scan"
                    /\ row' = next.r
                    /\ col' = next.c
                    /\ UNCHANGED result
    /\ UNCHANGED << out, days, registry, sheetIdx, rows, pending >>

\* Process finds no entry whose pattern the value contains.
DispatchUnmatched ==
    Dispatch("none")

\* Process calls handleDays.
DispatchDays ==
    Dispatch("handleDays")

\* Process calls handleWorkingTime.
DispatchWorkingTime ==
    Dispatch("handleWorkingTime")

\* Process calls the closure of RegisterEmployeeHandler.
DispatchEmployees ==
    Dispatch("writeEmployees")

\* Process calls the closure of RegisterMarksHandler, in step1 of main.
DispatchLegend ==
    Dispatch("writeMarks")

\* Process calls combFormulaHandler.handle, which removes the template row.
DispatchFormula ==
    Dispatch("handle")

\* Process calls combFormulaHandler.handle, which clears the template cell.
DispatchFormulaClearing ==
    Dispatch("handleClearing")

\* processSheet returned nil: process goes on to the next sheet, or to
\* WriteToBuffer after the last.
EndSheet ==
    /\ pc = "scan"
    /\ row >= Len(rows)
    /\ sheetIdx < Len(file.sheets)
    /\ sheetIdx' = sheetIdx + 1
    /\ pc' = "sheet"
    /\ UNCHANGED << out, days, registry, file, rows, row, col, hstate, result,
                    pending, ghost >>

EndSheets ==
    /\ pc = "scan"
    /\ row >= Len(rows)
    /\ sheetIdx = Len(file.sheets)
    /\ pc' = "write"
    /\ UNCHANGED << out, days, registry, file, sheetIdx, rows, row, col, hstate,
                    result, pending, ghost >>

\* process: buf, err := f.WriteToBuffer(); return buf.Bytes(), nil
WriteToBuffer ==
    /\ pc = "write"
    /\ result' = [status |-> "bytes", bytes |-> file, err |-> Nil]
    /\ pc' = "done"
    /\ UNCHANGED << out, days, registry, file, sheetIdx, rows, row, col, hstate,
                    pending, ghost >>

WriteToBufferFails ==
    /\ pc = "write"
    /\ result' = [status |-> "error", bytes |-> << >>,
                  err |-> << "write to buffer", ":", "rejected" >>]
    /\ pc' = "failed"
    /\ UNCHANGED << out, days, registry, file, sheetIdx, rows, row, col, hstate,
                    pending, ghost >>

FreshGhost(n, f) ==
    [pass |-> n, start |-> f, log |-> << >>, snaps |-> << >>,
     before |-> << >>, prior |-> << >>]

\* main: the next step runs ProcessBytes on the bytes the step before
\* returned, with a registry and handlers of its own.
NextPass ==
    /\ pc = "done"
    /\ pending # << >>
    /\ registry' = Head(pending)
    /\ pending' = Tail(pending)
    /\ file' = result.bytes
    /\ hstate' = FreshHandlerState
    /\ sheetIdx' = 1
    /\ rows' = << >>
    /\ row' = 0
    /\ col' = 0
    /\ result' = NoResult
    /\ pc' = "sheet"
    /\ ghost' = [FreshGhost(ghost.pass + 1, result.bytes) EXCEPT
                    !.prior = Append(ghost.prior, result)]
    /\ UNCHANGED << out, days >>

Init ==
    /\ days \in DayCounts
    /\ \E program \in Programs(days) :
        /\ registry = Head(program)
        /\ pending = Tail(program)
    /\ file \in Files
    /\ pc = "sheet"
    /\ sheetIdx = 1
    /\ rows = << >>
    /\ row = 0
    /\ col = 0
    /\ hstate = FreshHandlerState
    /\ result = NoResult
    /\ out = NoOutput
    /\ ghost = FreshGhost(1, file)

Next ==
    \/ ReadRows
    \/ ReadRowsFails
    \/ DispatchUnmatched
    \/ DispatchDays
    \/ DispatchWorkingTime
    \/ DispatchEmployees
    \/ DispatchFormula
    \/ DispatchFormulaClearing
    \/ EndSheet
    \/ EndSheets
    \/ WriteToBuffer
    \/ WriteToBufferFails
    \/ NextPass

Spec == Init /\ [][Next]_vars

-----------------------------------------------------------------------------
(* The formulas on their own: one employee row of attendance values, the   *)
(* generators and buildFormula applied to its attendance range and the     *)
(* formula stored in the cell right of the range.                          *)

\* The longest attendance row supplied to the generators.
MaxAttendance == 4

\* The attendance values of the rows supplied: symbols and numbers.
RowSymbols == { << "8" >>, << "W" >>, << "T" >> }

\* The sequences over S of length n.
RECURSIVE SeqsOf(_, _)
SeqsOf(S, n) ==
    IF n = 0 THEN { << >> }
    ELSE { Append(q, x) : q \in SeqsOf(S, n - 1), x \in S }

AttendanceRows == UNION { SeqsOf(RowSymbols, n) : n \in 1 .. MaxAttendance }

\* A workbook whose only row holds the attendance values from column 0 on.
RowFile(attendance) ==
    [sheets |-> << "Sheet1" >>,
     sh |-> [n \in {"Sheet1"} |->
                [rows |-> << AsTuple([j \in 1 .. Len(attendance) |->
                                        T(attendance[j])]) >>,
                 merges |-> {}, widths |-> {}]],
     nstyles |-> 0]

\* The generators applied: those of the keys main.go registers and the
\* weighted count of the example of RegisterFormulaHandler.
Generators ==
    { FormulaKeys[i].FormulaFn : i \in 1 .. 8 }
        \cup { CountIFFormula(<< "8" >>, 8) }

\* The cell texts buildFormula is applied to.
FormulaTexts ==
    { << "{{t}}" >>, << "{{w}}" >>, << "{{t}}", "{{w}}" >>,
      << "{{num_sum}}" >>, << "{{num_count}}" >>,
      << "{{t}}", "{{num_sum}}" >>, << "total", "{{}}" >> }

\* The handler of one employee row whose attendance starts in column 0.
RowHandler ==
    [kind |-> "handle", employeeCount |-> 1, attStart |-> 0,
     keys |-> FormulaKeys]

\* The cell right of the attendance range of row 0.
FormulaCell == CellName(0, RowHandler.attStart + currentMonthDays)

\* k.FormulaFn(attRange) stored as the formula of FormulaCell.
ApplyGenerator ==
    /\ pc = "formulas"
    /\ \E fn \in Generators :
        /\ file' = SetCellFormula(
                        [f |-> file, err |-> Nil, fault |-> "none", sm |-> {},
                         ret |-> 0, h |-> hstate],
                        << >>, "Sheet1", FormulaCell,
                        ApplyFormulaFn(fn, attRangeOf(RowHandler, 0))).f
        /\ ghost' = [ghost EXCEPT !.log = << [fn |-> fn, value |-> << >>] >>]
    /\ UNCHANGED << out, days, registry, pc, sheetIdx, rows, row, col, hstate,
                    result, pending >>

\* h.buildFormula(value, attRange) stored as the formula of FormulaCell,
\* as handle stores it when it is not empty.
ApplyBuildFormula ==
    /\ pc = "formulas"
    /\ \E value \in FormulaTexts :
        LET built == buildFormula(RowHandler.keys, value,
                                  attRangeOf(RowHandler, 0))
        IN  /\ built.formula # << >>
            /\ file' = SetCellFormula(
                            [f |-> file, err |-> Nil, fault |-> "none",
                             sm |-> {}, ret |-> 0, h |-> hstate],
                            << >>, "Sheet1", FormulaCell, built.formula).f
            /\ ghost' = [ghost EXCEPT
                            !.log = << [fn |-> NilFormulaFn,
                                        value |-> value] >>]
    /\ UNCHANGED << out, days, registry, pc, sheetIdx, rows, row, col, hstate,
                    result, pending >>

InitFormulas ==
    /\ days \in DayCounts
    /\ registry = FormulaRegistry("handle", 1)
    /\ pending = << >>
    /\ file \in { RowFile(a) : a \in AttendanceRows }
    /\ pc = "formulas"
    /\ sheetIdx = 1
    /\ rows = << >>
    /\ row = 0
    /\ col = 0
    /\ hstate = FreshHandlerState
    /\ result = NoResult
    /\ out = NoOutput
    /\ ghost = FreshGhost(1, file)

NextFormulas ==
    \/ ApplyGenerator
    \/ ApplyBuildFormula

SpecFormulas == InitFormulas /\ [][NextFormulas]_vars

-----------------------------------------------------------------------------
(* The two passes over the attendance template with three employees of     *)
(* three attendance values each.                                           *)

ScenarioAttendance ==
    << << << "T" >>, << "D" >>, << "8" >> >>,
       << << "T" >>, << "T" >>, << "D" >> >>,
       << << "D" >>, << "D" >>, << "D" >> >> >>

ScenarioEmployees ==
    AsTuple([i \in 1 .. 3 |->
        [EmployeeOf(i, 0) EXCEPT !.Attendance = ScenarioAttendance[i]]])

InitScenario ==
    /\ days \in DayCounts
    /\ \E k \in FormulaKinds :
        /\ registry = StructuralRegistry(ScenarioEmployees)
        /\ pending = << FormulaRegistry(k, Len(ScenarioEmployees)) >>
    /\ file \in AttendanceFiles
    /\ pc = "sheet"
    /\ sheetIdx = 1
    /\ rows = << >>
    /\ row = 0
    /\ col = 0
    /\ hstate = FreshHandlerState
    /\ result = NoResult
    /\ out = NoOutput
    /\ ghost = FreshGhost(1, file)

SpecScenario == InitScenario /\ [][Next]_vars

-----------------------------------------------------------------------------
(* main.go: the four steps of the command, each a pass with a registry of  *)
(* its own, the output file and the exit status.  The templates hold no    *)
(* {{marks_list}}, no "[" and no "&1": the handlers of these patterns are  *)
(* registered and never called.                                            *)

\* var marks, its first entries
marks ==
    << [Name |-> << "R", "e", "s", "t" >>, Key |-> << "B" >>],
       [Name |-> << "T", "r", "i", "p", "s" >>, Key |-> << "W" >>] >>

\* The registry step1 builds.
step1(employees) ==
    RegisterMarksHandler(
        RegisterEmployeeHandler(RegisterDefaults(New), employees), marks)

\* The registry step2 builds, employeeCount being the constant of main.go.
step2(employeeCount) ==
    RegisterFormulaHandler(New, "handle", employeeCount,
                           AttendanceStartCol(0), FormulaKeys)

\* The registries step3 and step4 build.
step3 == RegisterMergeHandler(New)
step4 == RegisterBorderHandler(New)

\* The number of the step main is in.
StepNo == 4 - Len(pending)

\* ProcessFile, ProcessBytes: the workbook cannot be opened.
OpenFails ==
    /\ pc = "sheet"
    /\ sheetIdx = 1
    /\ pc' = "failed"
    /\ result' = [status |-> "error", bytes |-> << >>,
                  err |-> << "open", ":", "rejected" >>]
    /\ UNCHANGED << out, days, registry, file, sheetIdx, rows, row, col,
                    hstate, pending, ghost >>

\* A main that reports the error of a step and goes on to write the file.
WriteFileWhatever ==
    /\ pc \in {"done", "failed"}
    /\ pc = "done" => pending = << >>
    /\ out' = [out EXCEPT !.written = TRUE, !.data = result.bytes,
                          !.exit = 0]
    /\ pc' = "exit"
    /\ UNCHANGED << days, registry, file, sheetIdx, rows, row, col, hstate,
                    result, pending, ghost >>

\* main: a step has returned an error: the message on standard error,
\* os.Exit(1).
ExitOnError ==
    /\ pc = "failed"
    /\ out' = [out EXCEPT !.stderr = << "step" >> \o Itoa(StepNo)
                                        \o << ":" >> \o result.err,
                          !.exit = 1]
    /\ pc' = "exit"
    /\ UNCHANGED << days, registry, file, sheetIdx, rows, row, col, hstate,
                    result, pending, ghost >>

\* main: os.WriteFile(*output, data, 0644) after step4, "done", exit 0.
WriteFile ==
    /\ pc = "done"
    /\ pending = << >>
    /\ out' = [out EXCEPT !.written = TRUE, !.data = result.bytes,
                          !.exit = 0]
    /\ pc' = "exit"
    /\ UNCHANGED << days, registry, file, sheetIdx, rows, row, col, hstate,
                    result, pending, ghost >>

\* main: os.WriteFile fails, leaving no file or a file cut short:
\* "save: ..." on standard error, os.Exit(1).
WriteFileFails ==
    /\ pc = "done"
    /\ pending = << >>
    /\ \E cut \in BOOLEAN :
        out' = [out EXCEPT !.written = cut, !.data = << >>,
                           !.stderr = << "save", ":", "rejected" >>,
                           !.exit = 1]
    /\ pc' = "exit"
    /\ UNCHANGED << days, registry, file, sheetIdx, rows, row, col, hstate,
                    result, pending, ghost >>

\* main: step1 on the input file with employeeCount employees of a full
\* month, the other steps on the bytes of the step before.
\* The attendance sheet with a legend below the footer: a row with
\* {{marks_list}} and a last row.
LegendAttendanceSheet ==
    [AttendanceSheet EXCEPT
        !.rows = @ \o << << Styled(<< "{{marks_list}}" >>, 2) >>,
                         << T(<< "end" >>) >> >>]

\* The workbooks main is given as its template.
TemplateFiles ==
    Files \cup { [sheets |-> << "Sheet1", "Sheet2" >>,
                  sh |-> [n \in {"Sheet1", "Sheet2"} |->
                            IF n = "Sheet1" THEN LegendAttendanceSheet
                            ELSE EmptySheet],
                  nstyles |-> 2] }

InitCLI ==
    /\ days \in DayCounts
    /\ \E n \in 1 .. MaxEmployees :
        /\ registry = step1(AsTuple([i \in 1 .. n |-> EmployeeOf(i, days)]))
        /\ pending = << step2(n), step3, step4 >>
    /\ file \in TemplateFiles
    /\ pc = "sheet"
    /\ sheetIdx = 1
    /\ rows = << >>
    /\ row = 0
    /\ col = 0
    /\ hstate = FreshHandlerState
    /\ result = NoResult
    /\ out = NoOutput
    /\ ghost = FreshGhost(1, file)

NextCLI ==
    \/ OpenFails
    \/ ReadRows
    \/ ReadRowsFails
    \/ DispatchUnmatched
    \/ DispatchDays
    \/ DispatchWorkingTime
    \/ DispatchEmployees
    \/ DispatchLegend
    \/ DispatchFormula
    \/ EndSheet
    \/ EndSheets
    \/ WriteToBuffer
    \/ WriteToBufferFails
    \/ NextPass
    \/ WriteFile
    \/ WriteFileFails
    \/ ExitOnError

SpecCLI == InitCLI /\ [][NextCLI]_vars

-----------------------------------------------------------------------------
(* One pass over a template of texts: the legend of the marks, the merge   *)
(* codes, the replaced keys.                                               *)

\* The marks lists supplied hold up to this many marks.
MaxMarks == 3

\* domain.Mark values: a key of letters, a longer key, a key that is a
\* plain number, a mark without a key, a mark whose name is the placeholder
\* of the legend.
MarkPool ==
    { [Name |-> << "R", "e", "s", "t" >>, Key |-> << "B" >>],
      [Name |-> << "T", "r", "i", "p", "s" >>, Key |-> << "W", "T" >>],
      [Name |-> << "H", "o", "u", "r", "s" >>, Key |-> << "8" >>],
      [Name |-> << "N", "o" >>, Key |-> << >>],
      [Name |-> << "{{marks_list}}" >>, Key |-> << "X" >>] }

MarkLists ==
    UNION { { AsTuple(l) : l \in [1 .. n -> MarkPool] } : n \in 0 .. MaxMarks }

\* A cell without text that has a style.
StyledBlank(style) == [v |-> << >>, f |-> << >>, s |-> style]

\* A sheet with replaced keys in its first row, the placeholder of the
\* legend in its second, in a range merged over three columns or in a cell
\* of its own, and a row below.
LegendSheet(merged) ==
    [rows |->
        << << Styled(<< "{{year}}", " ", "{{month}}", " ", "{{year}}" >>, 1),
              T(<< "{{month}}" >>), T(<< "n", "o", "t", "e" >>) >>,
           << Styled(<< "{{marks_list}}" >>, 2), BlankCell, BlankCell >>,
           << T(<< "e", "n", "d" >>) >> >>,
     merges |-> IF merged THEN {[r1 |-> 1, c1 |-> 0, r2 |-> 1, c2 |-> 2]}
                ELSE {},
     widths |-> {}]

\* A sheet of merge codes: a styled cell with [1:2]; [0:0]; [0:0] followed
\* by a second code; an unstyled cell with [0:1] beside a styled one; texts
\* with "[" and no code; a cell with two codes.
CodesSheet ==
    [rows |->
        << << Styled(<< "H", "[", "1", ":", "2", "]" >>, 1), StyledBlank(3),
              BlankCell, T(<< "[", "0", ":", "0", "]", "k" >>),
              T(<< "[", "0", ":", "0", "]", "z", "[", "1", ":", "0", "]" >>) >>,
           << >>,
           << T(<< "a", "[", "0", ":", "1", "]" >>), StyledBlank(3),
              T(<< "[", "x", "]" >>) >>,
           << Styled(<< "[", "1", ":", "]" >>, 2),
              Styled(<< "p", "[", "2", ":", "0", "]", "q",
                        "[", "0", ":", "1", "]" >>, 2),
              T(<< "[", "1", "0", ":", "3", "]" >>) >> >>,
     merges |-> {},
     widths |-> {}]

TextFiles ==
    { [sheets |-> << "Sheet1", "Sheet2" >>,
       sh |-> [n \in {"Sheet1", "Sheet2"} |->
                    IF n = "Sheet1" THEN LegendSheet(merged) ELSE CodesSheet],
       nstyles |-> 3] : merged \in BOOLEAN }

\* The pairs added to a ReplaceHandler: two keys in either order, a value
\* that holds the other key, a single pair.
PairLists ==
    LET year == << "{{year}}" >>
        month == << "{{month}}" >>
        y2026 == << "2", "0", "2", "6" >>
        may == << "M", "a", "y" >>
    IN  { Add(Add(NewReplaceHandler, year, y2026), month, may),
          Add(Add(NewReplaceHandler, month, may), year, y2026),
          Add(Add(NewReplaceHandler, year, month), month, may),
          Add(Add(NewReplaceHandler, month, may), year, month),
          Add(NewReplaceHandler, month, may) }

\* The registries of the pass: the legend alone, the merge codes alone as
\* in step3 of main.go, a ReplaceHandler alone.
TextRegistries ==
    { RegisterMarksHandler(New, l) : l \in MarkLists }
    \cup { RegisterMergeHandler(New) }
    \cup { ReplaceHandlerRegister(pairs, New) : pairs \in PairLists }

\* Process calls (*ReplaceHandler).apply.
DispatchReplace ==
    Dispatch("apply")

\* Process calls the closure of RegisterMarksHandler.
DispatchMarks ==
    Dispatch("writeMarks")

\* Process calls handleMergeCode.
DispatchMergeCode ==
    Dispatch("handleMergeCode")

InitTexts ==
    /\ days = 31
    /\ registry \in TextRegistries
    /\ pending = << >>
    /\ file \in TextFiles
    /\ pc = "sheet"
    /\ sheetIdx = 1
    /\ rows = << >>
    /\ row = 0
    /\ col = 0
    /\ hstate = FreshHandlerState
    /\ result = NoResult
    /\ out = NoOutput
    /\ ghost = FreshGhost(1, file)

NextTexts ==
    \/ ReadRows
    \/ ReadRowsFails
    \/ DispatchUnmatched
    \/ DispatchReplace
    \/ DispatchMarks
    \/ DispatchMergeCode
    \/ EndSheet
    \/ EndSheets
    \/ WriteToBuffer
    \/ WriteToBufferFails

SpecTexts == InitTexts /\ [][NextTexts]_vars

-----------------------------------------------------------------------------
(* Formula rows: a template with one or two formula rows, the structural   *)
(* pass, the formula pass, and the Processor of the formula pass run once  *)
(* more.                                                                   *)

\* The attendance sheet with a second formula row below the first.
TwoFormulaRowsSheet ==
    [AttendanceSheet EXCEPT
        !.rows = SubSeq(@, 1, 5)
                    \o << << BlankCell, BlankCell, BlankCell, BlankCell,
                             BlankCell, T(<< "{{w}}" >>) >> >>
                    \o SubSeq(@, 6, 6)]

FormulaRowFiles ==
    { [sheets |-> << "Sheet1", "Sheet2" >>,
       sh |-> [n \in {"Sheet1", "Sheet2"} |->
                    IF n = "Sheet1" THEN first ELSE EmptySheet],
       nstyles |-> 2] : first \in {AttendanceSheet, TwoFormulaRowsSheet} }

\* A caller that calls ProcessBytes of the Processor of the formula pass a
\* second time, on another copy of the workbook that pass was given: the
\* Processor holds the registry, whose closure holds the one
\* combFormulaHandler with its style manager and its removed rows.
ProcessAgain ==
    /\ pc = "done"
    /\ pending = << >>
    /\ ghost.pass = 2
    /\ file' = ghost.start
    /\ sheetIdx' = 1
    /\ rows' = << >>
    /\ row' = 0
    /\ col' = 0
    /\ result' = NoResult
    /\ pc' = "sheet"
    /\ ghost' = [FreshGhost(ghost.pass + 1, ghost.start) EXCEPT
                    !.prior = Append(ghost.prior, result)]
    /\ UNCHANGED << out, days, registry, pending, hstate >>

InitReuse ==
    /\ days \in DayCounts
    /\ \E n \in 1 .. MaxEmployees :
        /\ registry = StructuralRegistry(
                        AsTuple([i \in 1 .. n |-> EmployeeOf(i, days)]))
        /\ pending = << FormulaRegistry("handle", n) >>
    /\ file \in FormulaRowFiles
    /\ pc = "sheet"
    /\ sheetIdx = 1
    /\ rows = << >>
    /\ row = 0
    /\ col = 0
    /\ hstate = FreshHandlerState
    /\ result = NoResult
    /\ out = NoOutput
    /\ ghost = FreshGhost(1, file)

NextReuse ==
    \/ ReadRows
    \/ ReadRowsFails
    \/ DispatchUnmatched
    \/ DispatchDays
    \/ DispatchWorkingTime
    \/ DispatchEmployees
    \/ DispatchFormula
    \/ EndSheet
    \/ EndSheets
    \/ WriteToBuffer
    \/ WriteToBufferFails
    \/ NextPass
    \/ ProcessAgain

SpecReuse == InitReuse /\ [][NextReuse]_vars

-----------------------------------------------------------------------------
(* The style cache on its own: requests to one StyleManager, and a new     *)
(* StyleManager over the same file as each pass and each handler makes.    *)

\* The requests made to one cache at most.
MaxRequests == 4

\* The caches made over one file at most.
MaxCaches == 2

\* The logical names of the styles.
StyleNames == {"centered", "left"}

\* sm.Centered() or sm.Left(): a request to the cache, which the file may
\* refuse to serve with a new style.
RequestStyle ==
    /\ pc = "styles"
    /\ Len(ghost.log) < MaxRequests
    /\ \E name \in StyleNames, fault \in {"none", "NewStyle"} :
        \E got \in { GetOrCreateStyle(
                        [f |-> file, err |-> Nil, fault |-> fault,
                         sm |-> hstate.sm, ret |-> 0, h |-> hstate],
                        << >>, name) } :
            /\ file' = got.f
            /\ hstate' = [hstate EXCEPT !.sm = got.sm]
            /\ ghost' = [ghost EXCEPT !.log = Append(@,
                            [name |-> name,
                             err |-> got.err,
                             ret |-> IF got.err = Nil THEN got.ret ELSE 0,
                             allocated |-> got.f.nstyles - file.nstyles])]
    /\ UNCHANGED << out, days, registry, pc, sheetIdx, rows, row, col, result,
                    pending >>

\* NewStyleManager(f): another cache over the same file.
NewCache ==
    /\ pc = "styles"
    /\ ghost.pass < MaxCaches
    /\ hstate' = [hstate EXCEPT
                    !.smMade = TRUE,
                    !.sm = NewStyleManager(
                                [f |-> file, err |-> Nil, fault |-> "none",
                                 sm |-> hstate.sm, ret |-> 0,
                                 h |-> hstate]).sm]
    /\ ghost' = FreshGhost(ghost.pass + 1, file)
    /\ UNCHANGED << out, days, registry, file, pc, sheetIdx, rows, row, col,
                    result, pending >>

InitStyles ==
    /\ days \in DayCounts
    /\ registry = New
    /\ pending = << >>
    /\ file \in Files
    /\ pc = "styles"
    /\ sheetIdx = 1
    /\ rows = << >>
    /\ row = 0
    /\ col = 0
    /\ hstate = [FreshHandlerState EXCEPT !.smMade = TRUE]
    /\ result = NoResult
    /\ out = NoOutput
    /\ ghost = FreshGhost(1, file)

NextStyles ==
    \/ RequestStyle
    \/ NewCache

SpecStyles == InitStyles /\ [][NextStyles]_vars

-----------------------------------------------------------------------------
(* What the history records, for the properties below. *)

\* Whether the pass has dispatched a cell.
Dispatched == ghost.log # << >>

\* The last dispatch the pass made.
LastDispatch == ghost.log[Len(ghost.log)]

\* The entries of the registry whose pattern the text contains.
MatchingEntries(value) ==
    { i \in 1 .. Len(registry) : Contains(value, registry[i].pattern) }

\* The earliest-registered of a non-empty set of entries.
Earliest(entries) == CHOOSE i \in entries : \A j \in entries : i <= j

\* The handler method the last dispatch invoked, "none" when it invoked none.
LastKind ==
    IF LastDispatch.invoked = << >> THEN "none"
    ELSE registry[LastDispatch.invoked[1]].handler.kind

\* The last dispatch invoked a handler of the kind, which returned nil.
Handled(kind) ==
    /\ Dispatched
    /\ LastKind = kind
    /\ LastDispatch.err = Nil

\* The sheet the last dispatch was made on, before and after the call.
SheetBefore == ghost.before.sh[LastDispatch.sheet]
SheetAfter == file.sh[LastDispatch.sheet]

-----------------------------------------------------------------------------
(* C1 *)

\* C1: when the text of a dispatched cell contains the patterns of two or
\* more entries of the registry, Process invokes the handler of the
\* earliest-registered of them, once, and the handler of no other entry; so
\* an entry registered later under a pattern already registered is never
\* invoked.
C1_FirstMatchWins ==
    Dispatched =>
        LET matching == MatchingEntries(LastDispatch.value)
        IN  /\ Cardinality(matching) >= 2
                => LastDispatch.invoked = << Earliest(matching) >>
            /\ \A i \in 1 .. Len(LastDispatch.invoked) :
                \A j \in 1 .. (LastDispatch.invoked[i] - 1) :
                    registry[j].pattern
                        # registry[LastDispatch.invoked[i]].pattern

\* A cell whose text holds the patterns of two entries registered apart,
\* the later-registered pattern standing first in the text, was dispatched
\* and the earlier-registered entry's handler ran.
C1_Witness ==
    /\ Dispatched
    /\ LastDispatch.value = << "{{working_time}}", "{{days}}" >>
    /\ MatchingEntries(LastDispatch.value) = {1, 2}
    /\ registry[1].pattern # registry[2].pattern
    /\ LastDispatch.invoked = << 1 >>
    /\ LastDispatch.err = Nil

-----------------------------------------------------------------------------
(* C2 *)

\* C2: when the handler Process invoked returned an error, Process reports
\* matched = true together with that error.
C2_MatchedWithHandlerError ==
    (Dispatched /\ LastDispatch.invoked # << >> /\ LastDispatch.err # Nil)
        => LastDispatch.matched

\* What Process does return then: matched = false with the error.
C2_Witness ==
    /\ Dispatched
    /\ LastDispatch.invoked # << >>
    /\ LastDispatch.err # Nil
    /\ ~LastDispatch.matched

-----------------------------------------------------------------------------
(* C3 *)

RECURSIVE nonEmptyCells(_, _, _, _)
\* The cells of the grid with non-empty text, from (r, c) on in row-major
\* order, as the dispatches of them would be recorded.
nonEmptyCells(sheet, grid, r, c) ==
    IF r >= Len(grid) THEN << >>
    ELSE IF c >= Len(grid[r + 1]) THEN nonEmptyCells(sheet, grid, r + 1, 0)
    ELSE IF grid[r + 1][c + 1] = << >>
    THEN nonEmptyCells(sheet, grid, r, c + 1)
    ELSE << [sheet |-> sheet, row |-> r, col |-> c,
             value |-> grid[r + 1][c + 1]] >>
            \o nonEmptyCells(sheet, grid, r, c + 1)

RECURSIVE expectedDispatches(_)
\* The non-empty cells of the grids read so far, sheet after sheet.
expectedDispatches(k) ==
    IF k > Len(ghost.snaps) THEN << >>
    ELSE nonEmptyCells(file.sheets[k], ghost.snaps[k], 0, 0)
            \o expectedDispatches(k + 1)

\* The dispatches made so far: sheet, row, column and text of each.
dispatchedCells ==
    [k \in 1 .. Len(ghost.log) |->
        [sheet |-> ghost.log[k].sheet, row |-> ghost.log[k].row,
         col |-> ghost.log[k].col, value |-> ghost.log[k].value]]

\* Whether every sheet read so far has been scanned to its end.
scannedToEnd ==
    \/ pc \in {"sheet", "write", "done"}
    \/ pc = "scan" /\ row >= Len(rows)

\* C3: the dispatches of a pass are, in order, the cells whose text was
\* non-empty in the grid read from each sheet, row by row and left to
\* right: always a prefix of that list, and the whole list once the sheets
\* read have been scanned to their end.  So each such cell is dispatched
\* once and a cell with empty text never.
C3_EveryNonEmptyCellOnce ==
    LET expected == expectedDispatches(1)
        made == dispatchedCells
    IN  /\ Len(made) <= Len(expected)
        /\ \A k \in 1 .. Len(made) : made[k] = expected[k]
        /\ scannedToEnd => Len(made) = Len(expected)

\* A pass scanned two sheets to their end, one of them with an empty cell
\* between two non-empty ones, and dispatched the non-empty cells of both.
C3_Witness ==
    /\ pc = "write"
    /\ Len(ghost.snaps) = 2
    /\ Len(ghost.snaps[2]) >= 1
    /\ Len(ghost.snaps[2][1]) = 3
    /\ ghost.snaps[2][1][2] = << >>
    /\ Len(ghost.log) = Len(expectedDispatches(1))
    /\ \E k \in 1 .. Len(ghost.log) : ghost.log[k].sheet = "Sheet2"
    /\ \E k \in 1 .. Len(ghost.log) : ghost.log[k].sheet = "Sheet1"

-----------------------------------------------------------------------------
(* C4 *)

\* The place of the sheet in GetSheetList.
SheetIndex(name) ==
    CHOOSE k \in 1 .. Len(file.sheets) : file.sheets[k] = name

\* The grid read from the sheet of the last dispatch when its scan began.
LastSnapshot == ghost.snaps[SheetIndex(LastDispatch.sheet)]

\* The handler method dispatch k of the pass invoked.
KindOf(k) ==
    IF ghost.log[k].invoked = << >> THEN "none"
    ELSE registry[ghost.log[k].invoked[1]].handler.kind

\* The handler methods that insert or remove rows or columns.
StructuralKinds == {"handleDays", "writeEmployees", "handle"}

\* No dispatch made on the sheet before the last one invoked a handler that
\* inserts or removes rows or columns.
NoEditBeforeLast ==
    \A k \in 1 .. (Len(ghost.log) - 1) :
        ghost.log[k].sheet = LastDispatch.sheet
            => KindOf(k) \notin StructuralKinds

\* C4, as stated: the (row, col) a cell is dispatched with is where its
\* text lies in the file at the time of the call, whatever rows or columns
\* the handlers called before have inserted or removed.
C4_IndicesFollowEdits ==
    Dispatched =>
        CellAt(SheetBefore, LastDispatch.row, LastDispatch.col).v
            = LastDispatch.value

\* C4, amended: the (row, col) a cell is dispatched with is its place in
\* the grid read when the scan of the sheet began; it is where the text
\* lies in the file at the time of the call as long as no handler called
\* before on that sheet inserts or removes rows or columns.
C4_IndicesAreOfTheSnapshot ==
    Dispatched =>
        /\ LastSnapshot[LastDispatch.row + 1][LastDispatch.col + 1]
                = LastDispatch.value
        /\ NoEditBeforeLast
            => CellAt(SheetBefore, LastDispatch.row, LastDispatch.col).v
                    = LastDispatch.value

\* After columns were inserted to its left in its row, a cell was
\* dispatched with the indices it had in the grid read, where the file no
\* longer holds its text.
C4_Witness ==
    /\ Dispatched
    /\ ~NoEditBeforeLast
    /\ LastSnapshot[LastDispatch.row + 1][LastDispatch.col + 1]
            = LastDispatch.value
    /\ CellAt(SheetBefore, LastDispatch.row, LastDispatch.col).v
            # LastDispatch.value
    /\ CellAt(SheetBefore, LastDispatch.row,
              LastDispatch.col + insertedDayCols(days)).v
            = LastDispatch.value

-----------------------------------------------------------------------------
(* C5 *)

\* The cell label the error of a failed dispatch of (r, c) names.
labelOf(r, c) == CellName(r, c)

\* C5: a dispatch that returned an error is the last of the pass and on the
\* last sheet read; the pass has failed, returning no bytes and an error
\* that names the sheet and the label of the cell, the label being that of
\* the cell's row and column.
C5_FirstErrorEndsPass ==
    \A k \in 1 .. Len(ghost.log) :
        ghost.log[k].err # Nil =>
            LET e == ghost.log[k]
                label == labelOf(e.row, e.col)
            IN  /\ k = Len(ghost.log)
                /\ pc = "failed"
                /\ Len(ghost.snaps) = sheetIdx
                /\ file.sheets[sheetIdx] = e.sheet
                /\ result.status = "error"
                /\ result.bytes = << >>
                /\ ValidCellName(label)
                /\ CellRow(label) = e.row
                /\ CellCol(label) = e.col
                /\ result.err
                    = << "sheet", e.sheet, ":", "cell" >> \o label
                        \o << ":" >> \o e.err

\* A dispatch failed after others had succeeded, with cells of the sheet
\* and a second, non-empty sheet still to come.
C5_Witness ==
    /\ Dispatched
    /\ LastDispatch.err # Nil
    /\ Len(ghost.log) >= 2
    /\ pc = "failed"
    /\ sheetIdx = 1
    /\ file.sh["Sheet2"].rows # << >>
    /\ nextCell(rows, row, col + 1).r < Len(rows)

-----------------------------------------------------------------------------
(* C6 *)

\* The text of the cell at 0-based (r, c) of a sheet.
TextAt(sheetRec, r, c) == CellAt(sheetRec, r, c).v

\* The columns a comparison of the sheet before and after a call ranges
\* over: past the widest row of either.
ColumnsOf(a, b) ==
    LET lens == { Len(a.rows[i]) : i \in 1 .. Len(a.rows) }
                \cup { Len(b.rows[i]) : i \in 1 .. Len(b.rows) } \cup {0}
    IN  0 .. (CHOOSE m \in lens : \A n \in lens : n <= m)

\* The employees of the handler the last dispatch invoked.
LastEmployees == registry[LastDispatch.invoked[1]].handler.employees

\* C6: when the {{start_process}} handler has returned nil at (row, col)
\* for a list of N employees, N >= 1; the sheet has N - 1 rows more than
\* before; the rows above row are as before and the rows that were below
\* row are N - 1 rows lower; and row row + i holds employee i (0-based, in
\* the order of the list): id, name, table id and job position in columns
\* col .. col + 3, attendance value j in column col + 4 + j, and nothing
\* else.
C6_EmployeeRows ==
    Handled("writeEmployees") =>
        LET r == LastDispatch.row
            c == LastDispatch.col
            n == Len(LastEmployees)
            cols == ColumnsOf(SheetBefore, SheetAfter)
        IN  /\ n >= 1
            /\ Len(SheetAfter.rows) = Len(SheetBefore.rows) + n - 1
            /\ \A rr \in 0 .. (r - 1) : \A j \in cols :
                TextAt(SheetAfter, rr, j) = TextAt(SheetBefore, rr, j)
            /\ \A rr \in (r + 1) .. (Len(SheetBefore.rows) - 1) : \A j \in cols :
                TextAt(SheetAfter, rr + n - 1, j) = TextAt(SheetBefore, rr, j)
            /\ \A i \in 0 .. (n - 1) :
                LET emp == LastEmployees[i + 1]
                    a == Len(emp.Attendance)
                IN  /\ TextAt(SheetAfter, r + i, c) = Itoa(emp.Id)
                    /\ TextAt(SheetAfter, r + i, c + 1) = emp.FullName
                    /\ TextAt(SheetAfter, r + i, c + 2) = emp.TableID
                    /\ TextAt(SheetAfter, r + i, c + 3) = emp.JobPosition
                    /\ \A j \in 0 .. (a - 1) :
                        TextAt(SheetAfter, r + i, c + 4 + j)
                            = emp.Attendance[j + 1]
                    /\ \A j \in cols :
                        (j < c \/ j >= c + 4 + a)
                            => TextAt(SheetAfter, r + i, j) = << >>

\* The handler wrote two employees with a month of attendance each, the
\* second into the row below the placeholder's, and the formula row moved
\* down by one.
C6_Witness ==
    /\ Handled("writeEmployees")
    /\ Len(LastEmployees) = 2
    /\ Len(LastEmployees[2].Attendance) = days
    /\ TextAt(SheetAfter, LastDispatch.row + 1, LastDispatch.col + 1)
            = LastEmployees[2].FullName
    /\ TextAt(SheetAfter, LastDispatch.row + 1,
              LastDispatch.col + 4 + days - 1)
            = LastEmployees[2].Attendance[days]
    /\ TextAt(SheetBefore, LastDispatch.row, LastDispatch.col)
            = << "{{start_process}}" >>
    /\ Len(SheetAfter.rows) = Len(SheetBefore.rows) + 1

-----------------------------------------------------------------------------
(* C7 *)

\* C7: when the {{days}} handler has returned nil at (row, col), with D
\* the number of days of the month, D is 28, 29, 30 or 31; every row has
\* D - 1 new columns right after column col, the cells that were right of
\* col lying D - 1 columns further right; and the cells (row, col) ..
\* (row, col + D - 1) hold 1 .. D in this order, the first in place of the
\* placeholder's text.
C7_DayColumns ==
    Handled("handleDays") =>
        LET r == LastDispatch.row
            c == LastDispatch.col
            d == days
            cols == ColumnsOf(SheetBefore, SheetAfter)
        IN  /\ d \in {28, 29, 30, 31}
            /\ Len(SheetAfter.rows) = Len(SheetBefore.rows)
            /\ \A i \in 0 .. (d - 1) :
                TextAt(SheetAfter, r, c + i) = Itoa(i + 1)
            /\ \A rr \in 0 .. (Len(SheetBefore.rows) - 1) : \A j \in cols :
                /\ (j < c \/ (j = c /\ rr # r))
                    => TextAt(SheetAfter, rr, j) = TextAt(SheetBefore, rr, j)
                /\ (j > c /\ j <= c + d - 1 /\ rr # r)
                    => TextAt(SheetAfter, rr, j) = << >>
                /\ j > c + d - 1
                    => TextAt(SheetAfter, rr, j)
                            = TextAt(SheetBefore, rr, j - (d - 1))

\* The handler ran at a placeholder with a cell to its right, in a month of
\* 31 days: the last day number is 31 and the cell is 30 columns further
\* right.
C7_Witness ==
    /\ Handled("handleDays")
    /\ days = 31
    /\ TextAt(SheetBefore, LastDispatch.row, LastDispatch.col)
            = << "{{days}}" >>
    /\ TextAt(SheetBefore, LastDispatch.row, LastDispatch.col + 1)
            = << "{{working_time}}" >>
    /\ TextAt(SheetAfter, LastDispatch.row, LastDispatch.col) = << "1" >>
    /\ TextAt(SheetAfter, LastDispatch.row, LastDispatch.col + 30)
            = << "3", "1" >>
    /\ TextAt(SheetAfter, LastDispatch.row, LastDispatch.col + 31)
            = << "{{working_time}}" >>

-----------------------------------------------------------------------------
(* C8 *)

\* The formula of the cell at 0-based (r, c) of a sheet.
FormulaAt(sheetRec, r, c) == CellAt(sheetRec, r, c).f

\* The last dispatch invoked the formula handler, which returned nil.
FormulasHandled ==
    /\ Dispatched
    /\ LastKind \in FormulaKinds
    /\ LastDispatch.err = Nil

\* The combFormulaHandler the last dispatch invoked.
LastHandler == registry[LastDispatch.invoked[1]].handler

\* The keys of the handler found in the text that have a generator, in
\* the order of registration.
GeneratingKeys(h, value) ==
    SelectSeq(h.keys,
              LAMBDA k : Contains(value, k.Key) /\ k.FormulaFn.kind # "nil")

\* The range of the d attendance cells of row rr, from column attStart on.
RowRange(rr, attStart, d) ==
    CellName(rr, attStart) \o << ":" >> \o CellName(rr, attStart + d - 1)

\* The formula the handler writes into row rr for the text.
ExpectedFormula(h, value, rr) ==
    buildFormula(h.keys, value, RowRange(rr, h.attStart, days)).formula

\* C8: when the formula handler with employee count N has returned nil at
\* (row, col), the rows row - N .. row - 1 exist; if the text holds a key
\* with a generator, column col of each of these rows holds a formula, the
\* one built over the attendance range of that row, whose two corners lie
\* in that row at columns attStart and attStart + D - 1; and the formula of
\* no other cell has changed, the rows from row on having at most moved up
\* by one.
C8_FormulaRows ==
    FormulasHandled =>
        LET r == LastDispatch.row
            c == LastDispatch.col
            h == LastHandler
            n == h.employeeCount
            value == LastDispatch.value
            generated == GeneratingKeys(h, value) # << >>
            cols == ColumnsOf(SheetBefore, SheetAfter)
        IN  /\ n >= 1 => r - n >= 0
            /\ \A rr \in (r - n) .. (r - 1) :
                LET first == CellName(rr, h.attStart)
                    last == CellName(rr, h.attStart + days - 1)
                IN  IF generated
                    THEN /\ FormulaAt(SheetAfter, rr, c) # << >>
                         /\ FormulaAt(SheetAfter, rr, c)
                                = ExpectedFormula(h, value, rr)
                         /\ CellRow(first) = rr /\ CellRow(last) = rr
                         /\ CellCol(first) = h.attStart
                         /\ CellCol(last) = h.attStart + days - 1
                    ELSE FormulaAt(SheetAfter, rr, c)
                            = FormulaAt(SheetBefore, rr, c)
            /\ \A rr \in 0 .. (r - 1) : \A j \in cols :
                (rr < r - n \/ j # c)
                    => FormulaAt(SheetAfter, rr, j)
                            = FormulaAt(SheetBefore, rr, j)
            /\ \E shift \in {0, 1} :
                \A rr \in r .. Len(SheetBefore.rows) : \A j \in cols :
                    (shift = 1 \/ rr # r \/ j # c)
                        => FormulaAt(SheetAfter, rr, j)
                                = FormulaAt(SheetBefore, rr + shift, j)

\* In the pass after the one that wrote two employees, the handler ran at a
\* placeholder below them and both employee rows hold a formula in the
\* placeholder's column, each over its own row.
C8_Witness ==
    /\ FormulasHandled
    /\ ghost.pass = 2
    /\ LastKind = "handle"
    /\ LastHandler.employeeCount = 2
    /\ LastDispatch.value = << "{{num_sum}}" >>
    /\ FormulaAt(SheetBefore, LastDispatch.row - 1, LastDispatch.col) = << >>
    /\ FormulaAt(SheetAfter, LastDispatch.row - 2, LastDispatch.col)
            = << "IF(", "IFERROR(SUMPRODUCT(IFERROR(VALUE(" >>
                \o RowRange(LastDispatch.row - 2, 4, days)
                \o << "),0)),0)", "=0,\"\",(",
                      "IFERROR(SUMPRODUCT(IFERROR(VALUE(" >>
                \o RowRange(LastDispatch.row - 2, 4, days)
                \o << "),0)),0)", "))" >>
    /\ FormulaAt(SheetAfter, LastDispatch.row - 1, LastDispatch.col)
            # FormulaAt(SheetAfter, LastDispatch.row - 2, LastDispatch.col)
    /\ FormulaAt(SheetAfter, LastDispatch.row - 1, LastDispatch.col) # << >>

-----------------------------------------------------------------------------
(* C9 *)

\* The texts of the sheet are what they were before the call.
TextsUnchanged ==
    /\ Len(SheetAfter.rows) = Len(SheetBefore.rows)
    /\ \A rr \in 0 .. (Len(SheetBefore.rows) - 1) :
        \A j \in ColumnsOf(SheetBefore, SheetAfter) :
            TextAt(SheetAfter, rr, j) = TextAt(SheetBefore, rr, j)

\* The texts of the sheet are what they were before the call but for the
\* cell (r, c), which is empty.
TextsUnchangedButCleared(r, c) ==
    /\ Len(SheetAfter.rows) = Len(SheetBefore.rows)
    /\ TextAt(SheetAfter, r, c) = << >>
    /\ \A rr \in 0 .. (Len(SheetBefore.rows) - 1) :
        \A j \in ColumnsOf(SheetBefore, SheetAfter) :
            (rr # r \/ j # c)
                => TextAt(SheetAfter, rr, j) = TextAt(SheetBefore, rr, j)

\* The texts of the sheet are what they were before the call with row r
\* taken out.
TextsWithoutRow(r) ==
    /\ Len(SheetAfter.rows) = Len(SheetBefore.rows) - 1
    /\ \A rr \in 0 .. (Len(SheetBefore.rows) - 1) :
        \A j \in ColumnsOf(SheetBefore, SheetAfter) :
            TextAt(SheetAfter, rr, j)
                = TextAt(SheetBefore, IF rr < r THEN rr ELSE rr + 1, j)

\* The last dispatch is the first of the pass that invoked the handler at a
\* placeholder of its sheet and row.
FirstOfItsRow ==
    \A k \in 1 .. (Len(ghost.log) - 1) :
        ~ /\ ghost.log[k].sheet = LastDispatch.sheet
          /\ ghost.log[k].row = LastDispatch.row
          /\ KindOf(k) = LastKind

-----------------------------------------------------------------------------
(* C10 *)

\* The fragments the generators of the keys make over a range.
Fragments(found, range) ==
    [i \in 1 .. Len(found) |-> ApplyFormulaFn(found[i].FormulaFn, range)]

\* C10: when the formula handler has returned nil at a cell whose text
\* holds two or more of its keys, Process invoked it once, through the
\* earliest-registered of these keys; and if any of the keys found has a
\* generator, column col of every employee row holds one formula, whose
\* body is the fragments of the keys found that have a generator, in the
\* order of registration, joined by "+" (a key not in the text, or without
\* a generator, adds nothing), within IF(body=0,"",(body)).
C10_CombinedFormula ==
    (FormulasHandled
        /\ Cardinality(MatchingEntries(LastDispatch.value)) >= 2) =>
        LET r == LastDispatch.row
            c == LastDispatch.col
            h == LastHandler
            found == GeneratingKeys(h, LastDispatch.value)
        IN  /\ Len(LastDispatch.invoked) = 1
            /\ found # << >> =>
                \A rr \in (r - h.employeeCount) .. (r - 1) :
                    LET joined ==
                            JoinPlus(Fragments(found,
                                        RowRange(rr, h.attStart, days)))
                    IN  FormulaAt(SheetAfter, rr, c)
                            = << "IF(" >> \o joined \o << "=0,\"\",(" >>
                                \o joined \o << "))" >>

\* The handler, with employee count 1, ran at {{t}}{{d}} in row 4 in a
\* month of 28 days: row 3 holds the sum of the two counts over E4:AF4.
C10_Witness ==
    /\ FormulasHandled
    /\ LastDispatch.value = << "{{t}}", "{{d}}" >>
    /\ LastHandler.employeeCount = 1
    /\ days = 28
    /\ LastDispatch.row = 4
    /\ FormulaAt(SheetAfter, 3, LastDispatch.col)
        = << "IF(",
             "SUMPRODUCT((", "E", "4", ":", "A", "F", "4", "=\"", "T",
             "\")*", "1", ")", "+",
             "SUMPRODUCT((", "E", "4", ":", "A", "F", "4", "=\"", "D",
             "\")*", "1", ")",
             "=0,\"\",(",
             "SUMPRODUCT((", "E", "4", ":", "A", "F", "4", "=\"", "T",
             "\")*", "1", ")", "+",
             "SUMPRODUCT((", "E", "4", ":", "A", "F", "4", "=\"", "D",
             "\")*", "1", ")",
             "))" >>


-----------------------------------------------------------------------------
(* What a stored formula displays: the spreadsheet functions the generated *)
(* formulas use, evaluated over the texts of the cells of the sheet.       *)
(* A number is displayed as its decimal text, the empty text as nothing.   *)

\* The first position of token tok in tokens, 0 when there is none.
IndexOf(tokens, tok) ==
    IF \E i \in 1 .. Len(tokens) : tokens[i] = tok
    THEN CHOOSE i \in 1 .. Len(tokens) :
            tokens[i] = tok /\ \A j \in 1 .. (i - 1) : tokens[j] # tok
    ELSE 0

RECURSIVE SumOf(_)
SumOf(numbers) ==
    IF numbers = << >> THEN 0 ELSE Head(numbers) + SumOf(Tail(numbers))

\* The texts of the cells of a range "A1:C1", row by row.
RangeTexts(sheetRec, range) ==
    LET k == IndexOf(range, ":")
        a == SubSeq(range, 1, k - 1)
        b == SubSeq(range, k + 1, Len(range))
        w == CellCol(b) - CellCol(a) + 1
        n == (CellRow(b) - CellRow(a) + 1) * w
    IN  AsTuple([i \in 1 .. n |->
            CellAt(sheetRec, CellRow(a) + ((i - 1) \div w),
                   CellCol(a) + ((i - 1) % w)).v])

\* VALUE(text) succeeds on the text of a number.
IsNumberText(text) ==
    text # << >> /\ \A i \in 1 .. Len(text) : IsDigit(text[i])

\* One "+"-free part of a formula: the weighted count of the cells equal
\* to a text, the sum of the numbers, or the count of the numbers.
EvalPart(sheetRec, part) ==
    IF part[1] = "SUMPRODUCT(("
    THEN LET k == IndexOf(part, "=\"")
             m == IndexOf(part, "\")*")
             texts == RangeTexts(sheetRec, SubSeq(part, 2, k - 1))
             symbol == SubSeq(part, k + 1, m - 1)
             weight == Atoi(SubSeq(part, m + 1, Len(part) - 1))
         IN  SumOf(AsTuple([i \in 1 .. Len(texts) |->
                    (IF texts[i] = symbol THEN 1 ELSE 0) * weight]))
    ELSE LET texts == RangeTexts(sheetRec, SubSeq(part, 2, Len(part) - 1))
         IN  IF part[Len(part)] = "),0)),0)"
             THEN SumOf(AsTuple([i \in 1 .. Len(texts) |->
                        IF IsNumberText(texts[i]) THEN Atoi(texts[i])
                        ELSE 0]))
             ELSE SumOf(AsTuple([i \in 1 .. Len(texts) |->
                        IF IsNumberText(texts[i])
                        THEN Atoi(texts[i]) * 0 + 1
                        ELSE 0]))

RECURSIVE EvalSum(_, _)
\* Parts joined with "+".
EvalSum(sheetRec, tokens) ==
    LET k == IndexOf(tokens, "+")
    IN  IF k = 0 THEN EvalPart(sheetRec, tokens)
        ELSE EvalPart(sheetRec, SubSeq(tokens, 1, k - 1))
                + EvalSum(sheetRec, SubSeq(tokens, k + 1, Len(tokens)))

\* What the cell of a formula displays.
Display(sheetRec, formula) ==
    IF formula[1] = "IF("
    THEN LET k == IndexOf(formula, "=0,\"\",(")
         IN  IF EvalSum(sheetRec, SubSeq(formula, 2, k - 1)) = 0
             THEN << >>
             ELSE Itoa(EvalSum(sheetRec,
                               SubSeq(formula, k + 1, Len(formula) - 1)))
    ELSE Itoa(EvalSum(sheetRec, formula))

\* The attendance values of the row the formulas are about.
RowTexts ==
    LET r == file.sh["Sheet1"].rows[1]
    IN  AsTuple([j \in 1 .. Min(Len(r), MaxAttendance) |-> r[j].v])

AttendanceTexts ==
    SelectSeq(RowTexts, LAMBDA t : t \in RowSymbols)

\* The formula stored right of the range and what it displays.
StoredFormula == CellAt(file.sh["Sheet1"], 0, currentMonthDays).f
Displayed == Display(file.sh["Sheet1"], StoredFormula)

\* How many of the attendance values are the text symbol.
CountOf(symbol) ==
    Cardinality({ j \in 1 .. Len(AttendanceTexts) :
                    AttendanceTexts[j] = symbol })

NumbersOf ==
    SelectSeq(AttendanceTexts, IsNumberText)

SumOfNumbers ==
    SumOf(AsTuple([j \in 1 .. Len(NumbersOf) |-> Atoi(NumbersOf[j])]))

\* The total of the generating keys of a cell text over the row.
TotalOf(value) ==
    SumOf(AsTuple([i \in 1 .. Len(FormulaKeys) |->
        LET k == FormulaKeys[i]
        IN  IF ~Contains(value, k.Key) THEN 0
            ELSE CASE k.FormulaFn.kind = "CountIF" ->
                        k.FormulaFn.value * CountOf(k.FormulaFn.symbol)
                   [] k.FormulaFn.kind = "SumNum" -> SumOfNumbers
                   [] k.FormulaFn.kind = "CountNum" -> Len(NumbersOf)
                   [] OTHER -> 0]))

\* Whether the last formula stored was built for the cell text value.
BuiltFor(value) ==
    /\ pc = "formulas"
    /\ ghost.log # << >>
    /\ ghost.log[1].value = value

\* Whether every generating key of the cell text is a symbol count.
OnlySymbolCounts(value) ==
    \A i \in 1 .. Len(FormulaKeys) :
        Contains(value, FormulaKeys[i].Key)
            => FormulaKeys[i].FormulaFn.kind \in {"CountIF", "nil"}

(* C11 *)
\* C11: a formula built only from symbol-count keys displays nothing when
\* its total is 0, and the formula built for the numeric-sum key or for the
\* numeric-count key displays the number 0 when its total is 0.
C11_ZeroDisplay ==
    \A value \in FormulaTexts :
        (BuiltFor(value) /\ TotalOf(value) = 0) =>
            /\ OnlySymbolCounts(value) => Displayed = << >>
            /\ value \in { << "{{num_sum}}" >>, << "{{num_count}}" >> }
                    => Displayed = << "0" >>

\* The formula of {{num_sum}} stored for a row without a number.
C11_Witness ==
    /\ BuiltFor(<< "{{num_sum}}" >>)
    /\ NumbersOf = << >>
    /\ StoredFormula # << >>

SummaryCol == 5 + currentMonthDays - 1

\* Both passes of the scenario have returned their bytes.
ScenarioDone ==
    /\ registry[1].handler.kind \in FormulaKinds
    /\ registry[1].handler.employeeCount = Len(ScenarioEmployees)
    /\ ghost.pass = 2
    /\ pc = "done"

\* What the summary column displays in the row of employee i (1-based).
SummaryOf(i) ==
    Display(file.sh["Sheet1"], FormulaAt(file.sh["Sheet1"], 2 + i, SummaryCol))

\* Whether a cell of the sheet still holds the text value.
HoldsText(sheetRec, value) ==
    \E r \in 1 .. Len(sheetRec.rows) :
        \E c \in 1 .. Len(sheetRec.rows[r]) : sheetRec.rows[r][c].v = value

-----------------------------------------------------------------------------
(* C14 *)

\* The style handle of the cell at 0-based (r, c) of a sheet.
StyleAt(sheetRec, r, c) == CellAt(sheetRec, r, c).s

\* The handle the style cache of the pass's formula handler holds for the
\* centered style.
CenteredHandle == (CHOOSE e \in hstate.sm : e.name = "centered").id

\* The last dispatch invoked the formula handler for a text none of whose
\* keys has a generator, and the handler returned nil.
StyleOnlyHandled ==
    /\ FormulasHandled
    /\ GeneratingKeys(LastHandler, LastDispatch.value) = << >>

\* C14: when the formula handler has returned nil for a cell whose keys
\* all have no generator, column col of each of the N rows above the cell
\* carries the centered style of the handler's cache, and the formula and
\* the text of each of these cells are what they were before the call.
C14_StyleOnlyKeys ==
    StyleOnlyHandled =>
        LET r == LastDispatch.row
            c == LastDispatch.col
            n == LastHandler.employeeCount
        IN  /\ \E e \in hstate.sm : e.name = "centered"
            /\ \A rr \in (r - n) .. (r - 1) :
                /\ StyleAt(SheetAfter, rr, c) = CenteredHandle
                /\ FormulaAt(SheetAfter, rr, c) = FormulaAt(SheetBefore, rr, c)
                /\ TextAt(SheetAfter, rr, c) = TextAt(SheetBefore, rr, c)

\* The handler ran at "total{{}}" below two employee rows: both cells
\* above it got the centered style and hold no formula.
C14_Witness ==
    /\ StyleOnlyHandled
    /\ LastDispatch.value = << "total", "{{}}" >>
    /\ LastHandler.employeeCount = 2
    /\ ghost.pass = 2
    /\ StyleAt(SheetBefore, LastDispatch.row - 1, LastDispatch.col)
            # CenteredHandle
    /\ StyleAt(SheetAfter, LastDispatch.row - 1, LastDispatch.col)
            = CenteredHandle
    /\ StyleAt(SheetAfter, LastDispatch.row - 2, LastDispatch.col)
            = CenteredHandle
    /\ FormulaAt(SheetAfter, LastDispatch.row - 1, LastDispatch.col) = << >>


-----------------------------------------------------------------------------
(* C15 *)

\* No cell text of the workbook contains a pattern of the registry.
NoPatternIn(f) ==
    \A n \in DOMAIN f.sh :
        \A r \in 1 .. Len(f.sh[n].rows) :
            \A c \in 1 .. Len(f.sh[n].rows[r]) :
                MatchingEntries(f.sh[n].rows[r][c].v) = {}

\* C15: in a pass over a workbook none of whose cell texts contains a
\* registered pattern, no dispatch invokes a handler and the workbook stays
\* what it was when the pass began: every text, formula, style, merged
\* range, column width, row and column; the bytes returned are that
\* workbook.
C15_RoundTrip ==
    (pc \in {"sheet", "scan", "write", "done", "failed"}
        /\ NoPatternIn(ghost.start)) =>
        /\ \A k \in 1 .. Len(ghost.log) :
            ghost.log[k].invoked = << >> /\ ghost.log[k].err = Nil
        /\ file = ghost.start
        /\ pc = "done" => result.bytes = ghost.start

\* A pass over the plain workbook has dispatched its four texts to a
\* registry that holds handlers and has returned the bytes.
C15_Witness ==
    /\ pc = "done"
    /\ NoPatternIn(ghost.start)
    /\ registry # << >>
    /\ Len(ghost.log) = 4
    /\ ghost.start.sh["Sheet1"].merges # {}
    /\ result.bytes = ghost.start

-----------------------------------------------------------------------------
(* C16 *)

\* C16: when no registered pattern is contained in the text, Process
\* returns matched = false and a nil error, no handler is invoked, and the
\* workbook and the handler state are what they were before the call.
C16_NoMatch ==
    (Dispatched /\ MatchingEntries(LastDispatch.value) = {}) =>
        /\ LastDispatch.matched = FALSE
        /\ LastDispatch.err = Nil
        /\ LastDispatch.invoked = << >>
        /\ file = ghost.before

\* Process was called on a text that holds a placeholder of no entry.
C16_Witness ==
    /\ Dispatched
    /\ LastDispatch.value = << "{{unknown}}" >>
    /\ registry # << >>
    /\ MatchingEntries(LastDispatch.value) = {}
    /\ LastDispatch.matched = FALSE
    /\ pc = "scan"


-----------------------------------------------------------------------------
(* C17 *)

\* The handlers that insert or remove rows or columns: day expansion,
\* employee rows, legend rows, removal of the formula row.
RowColumnEditors == {"handleDays", "writeEmployees", "writeMarks", "handle"}

-----------------------------------------------------------------------------
(* C18 *)

\* The step whose registry a registry is.
StepOf(r) ==
    CASE r[1].pattern = << "{{days}}" >> -> 1
      [] r[1].pattern = << "{{t}}" >> -> 2
      [] r[1].pattern = << "[" >> -> 3
      [] r[1].pattern = << "&1" >> -> 4

\* C18: the passes run in the order step1, step2, step3, step4; a pass
\* begins on the bytes the pass before it returned, and only when every
\* earlier pass returned bytes; the output file holds the bytes step4
\* returned and exists only once all four passes returned bytes; when a
\* pass has returned an error the command ends with no output file
\* written, the error on standard error and exit status 1.
C18_PassOrder ==
    /\ ghost.pass \in 1 .. 4
    /\ StepOf(registry) = ghost.pass
    /\ Len(pending) = 4 - ghost.pass
    /\ Len(ghost.prior) = ghost.pass - 1
    /\ \A k \in 1 .. Len(ghost.prior) : ghost.prior[k].status = "bytes"
    /\ ghost.pass > 1 => ghost.start = ghost.prior[ghost.pass - 1].bytes
    /\ out.written => /\ ghost.pass = 4
                      /\ result.status = "bytes"
                      /\ pc = "exit"
    /\ out.exit = 0 => out.written /\ out.data = result.bytes
    /\ out.exit # -1 <=> pc = "exit"
    /\ (pc = "exit" /\ result.status = "error")
            => /\ ~out.written
               /\ out.exit = 1
               /\ out.stderr = << "step" >> \o Itoa(ghost.pass) \o << ":" >>
                                    \o result.err
    /\ pc = "failed" => ~out.written

\* All four passes returned bytes and the output file holds those of the
\* last.
C18_Witness ==
    /\ pc = "exit"
    /\ out.exit = 0
    /\ out.written
    /\ ghost.pass = 4
    /\ Len(ghost.prior) = 3
    /\ out.data = result.bytes
    /\ out.data # ghost.prior[1].bytes


-----------------------------------------------------------------------------
(* C19 *)

\* The last dispatch invoked the formula handler at a row index smaller
\* than its employee count.
CalledAboveBlock ==
    /\ Dispatched
    /\ LastKind \in FormulaKinds
    /\ LastDispatch.row < LastHandler.employeeCount

\* The error is the refusal of an operation by the spreadsheet capability.
Rejected(err) == err # Nil /\ err[Len(err)] = "rejected"

\* The cells of the sheet are what they were before the call.
CellsUnchanged == SheetAfter = SheetBefore

\* C19 as stated: called at a row index smaller than N, the handler writes
\* nothing into rows that do not exist and returns no error of its own.
C19_OutOfRangeRowsSkipped ==
    CalledAboveBlock =>
        LastDispatch.err = Nil \/ Rejected(LastDispatch.err)

\* C19, amended: called at a row index smaller than N, the handler returns
\* an error and has written no cell: the name of its first cell, of row
\* index row - N < 0, is no cell name, and the write of the formula (of
\* the style, for a style-only text) fails with it; the pass ends there.
C19_OutOfRangeRowFails ==
    CalledAboveBlock =>
        /\ LastDispatch.err # Nil
        /\ LastDispatch.matched = FALSE
        /\ CellsUnchanged
        /\ pc = "failed"
        /\ ~Rejected(LastDispatch.err) =>
            /\ LastDispatch.err[Len(LastDispatch.err)] = "invalid cell name"
            /\ LastDispatch.err[1] \in {"set formula at", "set style at"}
            /\ SubSeq(LastDispatch.err, 2, Len(LastDispatch.err) - 2)
                = CellName(LastDispatch.row - LastHandler.employeeCount,
                           LastDispatch.col)

\* The handler with two employees was called at "{{t}}" in the first row
\* of a sheet and returned the error of the cell name.
C19_Witness ==
    /\ CalledAboveBlock
    /\ LastDispatch.row = 0
    /\ LastHandler.employeeCount = 2
    /\ LastDispatch.value = << "{{t}}" >>
    /\ LastDispatch.err
        = << "set formula at", "C", "-", "1", ":", "invalid cell name" >>
    /\ SheetBefore.rows # << >>


-----------------------------------------------------------------------------
(* C20 *)

\* The requests the cache served, by their place in its history.
Served == { i \in DOMAIN ghost.log : ghost.log[i].err = Nil }

\* The styles the file allocated for the requests of one name.
AllocatedFor(name) ==
    SumOf(AsTuple([i \in 1 .. Len(ghost.log) |->
                IF ghost.log[i].name = name THEN ghost.log[i].allocated
                ELSE 0]))

\* C20: within one cache, the requests for one logical name all return the
\* same handle and make the file allocate at most one style, and requests
\* for different names return different handles.
C20_StyleCacheIdempotent ==
    pc = "styles" =>
        /\ \A i, j \in Served :
            (ghost.log[i].name = ghost.log[j].name)
                <=> (ghost.log[i].ret = ghost.log[j].ret)
        /\ \A name \in StyleNames : AllocatedFor(name) <= 1
        /\ file.nstyles - ghost.start.nstyles
            = Cardinality({ ghost.log[i].name : i \in Served })

\* One cache served "centered" twice and "left" once after the file had
\* refused a style, and the file allocated two styles for it.
C20_Witness ==
    /\ pc = "styles"
    /\ Len(ghost.log) = 4
    /\ ghost.log[1].err # Nil
    /\ ghost.log[2].name = "centered" /\ ghost.log[2].err = Nil
    /\ ghost.log[3].name = "left" /\ ghost.log[3].err = Nil
    /\ ghost.log[4].name = "centered" /\ ghost.log[4].err = Nil
    /\ ghost.log[4].ret = ghost.log[2].ret
    /\ ghost.log[4].ret # ghost.log[3].ret
    /\ file.nstyles = ghost.start.nstyles + 2
    /\ ghost.pass = 2

-----------------------------------------------------------------------------
(* C21 *)

\* The last dispatch invoked the employee handler, whose insertion of the
\* rows the file refused after the template row was removed.
InsertionRefused ==
    /\ Dispatched
    /\ LastKind = "writeEmployees"
    /\ LastDispatch.err = << "insert rows", ":", "rejected" >>

\* The file before the last dispatch with the template row removed.
TemplateRowRemoved ==
    RemoveRow([f |-> ghost.before, err |-> Nil, fault |-> "none", sm |-> {},
               ret |-> 0, h |-> hstate],
              << >>, LastDispatch.sheet, LastDispatch.row + 1).f

\* C21: when the employee handler fails at the insertion of the rows, the
\* removal of the template row stays in the file in memory, and the pass
\* returns the error and no bytes.
C21_NoRollback ==
    InsertionRefused =>
        /\ file = TemplateRowRemoved
        /\ file # ghost.before
        /\ Len(SheetAfter.rows) = Len(SheetBefore.rows) - 1
        /\ pc = "failed"
        /\ result.status = "error"
        /\ result.bytes = << >>
        /\ result.err # Nil

\* The insertion was refused for a template with rows below the
\* placeholder, and the file in memory is one row shorter.
C21_Witness ==
    /\ InsertionRefused
    /\ Len(SheetBefore.rows) > LastDispatch.row + 1
    /\ Len(SheetAfter.rows) = Len(SheetBefore.rows) - 1
    /\ result.bytes = << >>

-----------------------------------------------------------------------------
(* C26 *)

\* The handler that removes the formula row has returned nil.
RowRemoverHandled == FormulasHandled /\ LastKind = "handle"

\* The key under which the handler records the row of the last dispatch.
LastRowKey == removedKey(LastDispatch.sheet, LastDispatch.row)

\* Column c of each of the n rows above row r holds the formula of the
\* text over the attendance of its own row.
FormulasAbove(h, value, r, c) ==
    \A rr \in (r - h.employeeCount) .. (r - 1) :
        FormulaAt(SheetAfter, rr, c) = ExpectedFormula(h, value, rr)

\* C26: of the placeholder cells of one row of one sheet, the handler
\* removes the row at the first one dispatched and at no later one, and at
\* each of them, the later ones included, it writes the formulas of the
\* cell into the same N rows above the row.
C26_RowRemovedOnce ==
    RowRemoverHandled =>
        /\ LastRowKey \in hstate.removedRows
        /\ IF FirstOfItsRow
           THEN Len(SheetAfter.rows) = Len(SheetBefore.rows) - 1
           ELSE Len(SheetAfter.rows) = Len(SheetBefore.rows)
        /\ GeneratingKeys(LastHandler, LastDispatch.value) # << >>
            => FormulasAbove(LastHandler, LastDispatch.value,
                             LastDispatch.row, LastDispatch.col)

\* The handler with two employees ran at the second placeholder of a row:
\* the row was removed before, the sheet keeps its rows now, and the two
\* rows above hold the formula of this cell.
C26_Witness ==
    /\ RowRemoverHandled
    /\ ~FirstOfItsRow
    /\ LastHandler.employeeCount = 2
    /\ LastDispatch.value = << "{{num_sum}}" >>
    /\ Len(SheetAfter.rows) = Len(SheetBefore.rows)
    /\ TextAt(SheetBefore, LastDispatch.row, 0) = << "Footer" >>
    /\ FormulaAt(SheetBefore, LastDispatch.row - 1, LastDispatch.col) = << >>
    /\ FormulaAt(SheetAfter, LastDispatch.row - 1, LastDispatch.col) # << >>
    /\ FormulaAt(SheetAfter, LastDispatch.row - 2, LastDispatch.col) # << >>

-----------------------------------------------------------------------------
(* C25 *)

\* C25: AttendanceStartCol(c) is c plus the number of the fixed columns,
\* four, whatever the file holds; and when the employee handler has
\* returned nil at column c, column AttendanceStartCol(c) of each employee
\* row holds the first attendance value of the employee, the column before
\* it holding the last fixed value, the job position.
C25_AttendanceStartCol ==
    /\ \A c \in 0 .. 3 : AttendanceStartCol(c) = c + 4
    /\ Handled("writeEmployees") =>
        \A i \in 1 .. Len(LastEmployees) :
            LET emp == LastEmployees[i]
                rr == LastDispatch.row + i - 1
                start == AttendanceStartCol(LastDispatch.col)
            IN  /\ TextAt(SheetAfter, rr, start - 1) = emp.JobPosition
                /\ emp.Attendance # << >> =>
                    /\ TextAt(SheetAfter, rr, start) = emp.Attendance[1]
                    /\ TextAt(SheetAfter, rr, start + Len(emp.Attendance) - 1)
                        = emp.Attendance[Len(emp.Attendance)]

\* Two employees with a full month of attendance were written, and the
\* first attendance value of the second is in column E.
C25_Witness ==
    /\ Handled("writeEmployees")
    /\ Len(LastEmployees) = 2
    /\ Len(LastEmployees[2].Attendance) = days
    /\ AttendanceStartCol(LastDispatch.col) = 4
    /\ TextAt(SheetAfter, LastDispatch.row + 1, 4)
        = LastEmployees[2].Attendance[1]
    /\ TextAt(SheetAfter, LastDispatch.row + 1, 3) = << "Engineer" >>

-----------------------------------------------------------------------------
(* C27 *)

\* The merged ranges the last call added to the sheet.
NewMerges == SheetAfter.merges \ SheetBefore.merges

\* C27 as stated: when the day handler has returned nil at (row, col), no
\* merged range it made holds a cell of the placeholder's row, the ranges
\* lying above that row, and each spans the columns col .. col + D - 1.
C27_HeaderMergesAbove ==
    Handled("handleDays") =>
        \A m \in NewMerges :
            /\ m.r2 < LastDispatch.row
            /\ m.c1 = LastDispatch.col
            /\ m.c2 = LastDispatch.col + days - 1

\* The day handler returned nil at a placeholder in the second row of a
\* sheet, and the range it merged in that row holds the day numbers.
C27_Witness ==
    /\ Handled("handleDays")
    /\ LastDispatch.row = 1
    /\ [r1 |-> 1, c1 |-> LastDispatch.col, r2 |-> 1,
        c2 |-> LastDispatch.col + days - 1] \in NewMerges
    /\ TextAt(SheetAfter, 1, LastDispatch.col + 1) = << "2" >>

-----------------------------------------------------------------------------
(* C22 *)

\* The last dispatch invoked the legend handler.
MarksDispatched == Dispatched /\ LastKind = "writeMarks"

\* The marks the handler was registered with.
LastMarks == registry[LastDispatch.invoked[1]].handler.marks

\* The abbreviation is made of digits alone.
OnlyDigits(key) ==
    /\ Len(key) >= 1
    /\ \A i \in 1 .. Len(key) :
        key[i] \in {"0", "1", "2", "3", "4", "5", "6", "7", "8", "9"}

\* The marks to render: those whose abbreviation is not made of digits
\* alone, in the order of the input.
RenderedMarks == SelectSeq(LastMarks, LAMBDA m : ~OnlyDigits(m.Key))

\* The text is the name, a filler of n underscores, the abbreviation.
IsLegendRow(text, m, n) ==
    /\ Len(text) = Len(m.Name) + n + Len(m.Key)
    /\ SubSeq(text, 1, Len(m.Name)) = m.Name
    /\ \A j \in (Len(m.Name) + 1) .. (Len(m.Name) + n) : text[j] = "_"
    /\ SubSeq(text, Len(m.Name) + n + 1, Len(text)) = m.Key

\* The length of the filler of a legend row of mark m.
FillerOf(text, m) == Len(text) - Len(m.Name) - Len(m.Key)

\* C22: when the legend handler has returned nil at (row, col), the rows
\* row, row + 1, ... hold, in column col, one row each for the marks whose
\* abbreviation is not made of digits alone, in the order of the input, a
\* mark without abbreviation among them; the sheet has lost the
\* placeholder's row and gained one row per mark rendered, the rows below
\* having moved accordingly.  With no mark to render nothing is inserted
\* (and the handler returns the error of the insertion of no rows).
C22_LegendRows ==
    MarksDispatched =>
        LET k == Len(RenderedMarks)
            r == LastDispatch.row
            c == LastDispatch.col
        IN  /\ LastDispatch.err = Nil =>
                /\ k >= 1
                /\ Len(SheetAfter.rows) = Len(SheetBefore.rows) - 1 + k
                /\ \A i \in 1 .. k :
                    IsLegendRow(TextAt(SheetAfter, r + i - 1, c),
                                RenderedMarks[i],
                                FillerOf(TextAt(SheetAfter, r + i - 1, c),
                                         RenderedMarks[i]))
                /\ \A rr \in (r + 1) .. (Len(SheetBefore.rows) - 1) :
                    \A j \in ColumnsOf(SheetBefore, SheetAfter) :
                        TextAt(SheetAfter, rr - 1 + k, j)
                            = TextAt(SheetBefore, rr, j)
                /\ \A rr \in 0 .. (r - 1) :
                    \A j \in ColumnsOf(SheetBefore, SheetAfter) :
                        TextAt(SheetAfter, rr, j) = TextAt(SheetBefore, rr, j)
            /\ k = 0 =>
                /\ LastDispatch.err # Nil
                /\ ~Rejected(LastDispatch.err) =>
                    /\ LastDispatch.err
                        = << "marks: insert rows", ":", "invalid parameter" >>
                    /\ Len(SheetAfter.rows) = Len(SheetBefore.rows) - 1

\* The handler was given a mark with a letter, a mark with the number 8 and
\* a mark without abbreviation: the first and the third have their rows,
\* one below the other, and the row that was below the placeholder follows.
C22_Witness ==
    /\ MarksDispatched
    /\ LastDispatch.err = Nil
    /\ Len(LastMarks) = 3
    /\ LastMarks[1].Key = << "B" >>
    /\ LastMarks[2].Key = << "8" >>
    /\ LastMarks[3].Key = << >>
    /\ Len(SheetAfter.rows) = Len(SheetBefore.rows) + 1
    /\ TextAt(SheetAfter, LastDispatch.row, 0)
        = << "R", "e", "s", "t", "_", "_", "_", "_", "B" >>
    /\ TextAt(SheetAfter, LastDispatch.row + 1, 0)
        = << "N", "o", "_", "_", "_", "_", "_", "_", "_" >>
    /\ TextAt(SheetAfter, LastDispatch.row + 2, 0) = << "e", "n", "d" >>

-----------------------------------------------------------------------------
(* C23 *)

\* The greatest of the rune lengths of name plus abbreviation over the
\* marks rendered.
WidestMark ==
    LET widths == { Len(RenderedMarks[i].Name) + Len(RenderedMarks[i].Key) :
                        i \in 1 .. Len(RenderedMarks) }
    IN  CHOOSE w \in widths : \A v \in widths : v <= w

\* C23: when the legend handler has returned nil, every row it wrote is the
\* name, a filler of underscores and the abbreviation, the filler is at
\* least four runes long, and every row is 4 + the greatest (rune length of
\* name + rune length of abbreviation) runes long.
C23_LegendWidth ==
    (MarksDispatched /\ LastDispatch.err = Nil) =>
        \A i \in 1 .. Len(RenderedMarks) :
            LET text == TextAt(SheetAfter, LastDispatch.row + i - 1,
                               LastDispatch.col)
                m == RenderedMarks[i]
            IN  /\ Len(text) = 4 + WidestMark
                /\ FillerOf(text, m) >= 4
                /\ IsLegendRow(text, m, FillerOf(text, m))

\* Three marks of different widths were rendered: the rows are eleven
\* runes long, the widest with a filler of four, the narrowest of nine.
C23_Witness ==
    /\ MarksDispatched
    /\ LastDispatch.err = Nil
    /\ Len(RenderedMarks) = 3
    /\ TextAt(SheetAfter, LastDispatch.row, 0)
        = << "T", "r", "i", "p", "s", "_", "_", "_", "_", "W", "T" >>
    /\ TextAt(SheetAfter, LastDispatch.row + 1, 0)
        = << "N", "o", "_", "_", "_", "_", "_", "_", "_", "_", "_" >>
    /\ TextAt(SheetAfter, LastDispatch.row + 2, 0)
        = << "R", "e", "s", "t", "_", "_", "_", "_", "_", "_", "B" >>

-----------------------------------------------------------------------------
(* C24 *)

\* The last dispatch invoked the merge-code handler.
MergeCodeDispatched == Dispatched /\ LastKind = "handleMergeCode"

\* The positions of the text that belong to a [digits:digits] code.
CodePositions(text) ==
    { j \in 1 .. Len(text) :
        \E i \in 1 .. j :
            mergeCodeAt(text, i) > 0 /\ j < i + mergeCodeAt(text, i) }

RECURSIVE WithoutPositions(_, _, _)
\* The text without its symbols at the positions, from position i on.
WithoutPositions(text, positions, i) ==
    IF i > Len(text) THEN << >>
    ELSE (IF i \in positions THEN << >> ELSE << text[i] >>)
            \o WithoutPositions(text, positions, i + 1)

\* Whether the text holds a code.
HasCode(text) == CodePositions(text) # {}

\* The two numbers of the first code of the text.
FirstCode(text) ==
    LET i == CHOOSE i \in CodePositions(text) :
                \A j \in CodePositions(text) : i <= j
        colon == CHOOSE j \in (i + 1) .. Len(text) :
                    text[j] = ":" /\ \A k \in (i + 1) .. (j - 1) : text[k] # ":"
        close == CHOOSE j \in (colon + 1) .. Len(text) :
                    text[j] = "]" /\ \A k \in (colon + 1) .. (j - 1) :
                                        text[k] # "]"
    IN  [r |-> Atoi(SubSeq(text, i + 1, colon - 1)),
         c |-> Atoi(SubSeq(text, colon + 1, close - 1))]

\* The rectangle the code of the last dispatch asks for.
CodeRectangle ==
    [r1 |-> LastDispatch.row, c1 |-> LastDispatch.col,
     r2 |-> LastDispatch.row + FirstCode(LastDispatch.value).r,
     c2 |-> LastDispatch.col + FirstCode(LastDispatch.value).c]

\* What the handler does to the text and the merged ranges: the text of the
\* cell is the text without its codes; with a code other than [0:0] the
\* rectangle is merged, with [0:0] no range is.
CodeStrippedAndMerged ==
    /\ TextAt(SheetAfter, LastDispatch.row, LastDispatch.col)
        = WithoutPositions(LastDispatch.value,
                           CodePositions(LastDispatch.value), 1)
    /\ IF FirstCode(LastDispatch.value).r # 0
            \/ FirstCode(LastDispatch.value).c # 0
       THEN SheetAfter.merges = SheetBefore.merges \cup {CodeRectangle}
       ELSE /\ SheetAfter.merges = SheetBefore.merges
            /\ \A rr \in 0 .. (Len(SheetBefore.rows) - 1) :
                \A j \in ColumnsOf(SheetBefore, SheetAfter) :
                    StyleAt(SheetAfter, rr, j) = StyleAt(SheetBefore, rr, j)

\* C24 as stated: when the handler has returned nil for a text with a code
\* [r:c], the cell holds the text without the code; if r or c is not zero
\* the rectangle (row, col) .. (row + r, col + c) is merged and every cell
\* of it has the style the cell had; for [0:0] nothing is merged.
C24_MergeCodeStyled ==
    (MergeCodeDispatched /\ LastDispatch.err = Nil
        /\ HasCode(LastDispatch.value)) =>
        /\ CodeStrippedAndMerged
        /\ SheetAfter.merges # SheetBefore.merges =>
            \A rr \in CodeRectangle.r1 .. CodeRectangle.r2 :
                \A j \in CodeRectangle.c1 .. CodeRectangle.c2 :
                    StyleAt(SheetAfter, rr, j)
                        = StyleAt(SheetBefore, LastDispatch.row,
                                  LastDispatch.col)

\* C24, amended: as stated, but the style of the cell is applied to the
\* rectangle only when it is not the default style 0; when it is 0 every
\* cell of the rectangle keeps the style it had.
C24_MergeCodeStyledUnlessDefault ==
    (MergeCodeDispatched /\ LastDispatch.err = Nil
        /\ HasCode(LastDispatch.value)) =>
        /\ CodeStrippedAndMerged
        /\ SheetAfter.merges # SheetBefore.merges =>
            \A rr \in CodeRectangle.r1 .. CodeRectangle.r2 :
                \A j \in CodeRectangle.c1 .. CodeRectangle.c2 :
                    StyleAt(SheetAfter, rr, j)
                        = IF StyleAt(SheetBefore, LastDispatch.row,
                                     LastDispatch.col) # 0
                          THEN StyleAt(SheetBefore, LastDispatch.row,
                                       LastDispatch.col)
                          ELSE StyleAt(SheetBefore, rr, j)

\* The handler returned nil for "H[1:2]" in a cell of style 1 beside a
\* cell of style 3: the cell holds "H" and the six cells of the rectangle
\* have style 1.
C24_Witness ==
    /\ MergeCodeDispatched
    /\ LastDispatch.err = Nil
    /\ LastDispatch.value = << "H", "[", "1", ":", "2", "]" >>
    /\ TextAt(SheetAfter, 0, 0) = << "H" >>
    /\ [r1 |-> 0, c1 |-> 0, r2 |-> 1, c2 |-> 2] \in SheetAfter.merges
    /\ StyleAt(SheetBefore, 0, 1) = 3
    /\ StyleAt(SheetAfter, 0, 1) = 1
    /\ StyleAt(SheetAfter, 1, 2) = 1

-----------------------------------------------------------------------------
(* C29 *)

\* C29: a text that holds "[" and no [digits:digits] code is handed to the
\* merge-code handler, which returns nil and leaves the file as it was:
\* the text and the style of the cell, the merged ranges of the sheet and
\* everything else.
C29_NoCodeNoChange ==
    (MergeCodeDispatched /\ Contains(LastDispatch.value, << "[" >>)
        /\ ~HasCode(LastDispatch.value)) =>
        /\ LastDispatch.err = Nil
        /\ LastDispatch.matched
        /\ file = ghost.before
        /\ TextAt(SheetAfter, LastDispatch.row, LastDispatch.col)
            = LastDispatch.value
        /\ pc = "scan"

\* The handler was called for "[1:]" in a cell of style 2 and the cell has
\* its text and its style.
C29_Witness ==
    /\ MergeCodeDispatched
    /\ LastDispatch.value = << "[", "1", ":", "]" >>
    /\ LastDispatch.err = Nil
    /\ TextAt(SheetAfter, LastDispatch.row, LastDispatch.col)
        = << "[", "1", ":", "]" >>
    /\ StyleAt(SheetAfter, LastDispatch.row, LastDispatch.col) = 2
    /\ file = ghost.before

-----------------------------------------------------------------------------
(* C28 *)

\* The pairs of the ReplaceHandler the last dispatch invoked.
LastPairs == registry[LastDispatch.invoked[1]].handler.pairs

RECURSIVE Substituted(_, _, _)
\* The text with every symbol that is the key replaced by the value, from
\* position i on (the keys of the pairs are single placeholders).
Substituted(text, pair, i) ==
    IF i > Len(text) THEN << >>
    ELSE (IF << text[i] >> = pair.key THEN pair.val ELSE << text[i] >>)
            \o Substituted(text, pair, i + 1)

RECURSIVE SubstitutedInOrder(_, _, _)
\* The text after the substitution of pair i, then of pair i + 1, ...
SubstitutedInOrder(text, pairs, i) ==
    IF i > Len(pairs) THEN text
    ELSE SubstitutedInOrder(Substituted(text, pairs[i], 1), pairs, i + 1)

\* No value of the pairs holds a key of the pairs.
PlainValues(pairs) ==
    \A i, j \in 1 .. Len(pairs) : ~Contains(pairs[i].val, pairs[j].key)

\* C28: when the handler of a ReplaceHandler has returned nil for a cell,
\* whichever of its keys the registry matched first, the cell holds the
\* text with every occurrence of the key of each pair replaced by its
\* value, pair after pair in the order the pairs were added (so that no
\* key is left when no value holds one), the cell has the style it had and
\* no other cell has changed.
C28_AllPairsReplaced ==
    Handled("apply") =>
        LET r == LastDispatch.row
            c == LastDispatch.col
        IN  /\ LastDispatch.invoked
                = << Earliest(MatchingEntries(LastDispatch.value)) >>
            /\ TextAt(SheetAfter, r, c)
                = SubstitutedInOrder(LastDispatch.value, LastPairs, 1)
            /\ PlainValues(LastPairs) =>
                \A i \in 1 .. Len(LastPairs) :
                    ~Contains(TextAt(SheetAfter, r, c), LastPairs[i].key)
            /\ StyleAt(SheetAfter, r, c) = StyleAt(SheetBefore, r, c)
            /\ SheetAfter.merges = SheetBefore.merges
            /\ \A rr \in 0 .. (Len(SheetBefore.rows) - 1) :
                \A j \in ColumnsOf(SheetBefore, SheetAfter) :
                    (rr # r \/ j # c) =>
                        CellAt(SheetAfter, rr, j) = CellAt(SheetBefore, rr, j)

\* The handler with the pairs of {{month}} and then {{year}} was triggered
\* by {{month}}, the first key of the registry, in a cell of style 1 that
\* begins with {{year}}, holds it twice and {{month}} once, and replaced
\* the three.
C28_Witness ==
    /\ Handled("apply")
    /\ Len(LastPairs) = 2
    /\ LastPairs[1].key = << "{{month}}" >>
    /\ LastPairs[2].val = << "2", "0", "2", "6" >>
    /\ LastDispatch.invoked = << 1 >>
    /\ LastDispatch.value
        = << "{{year}}", " ", "{{month}}", " ", "{{year}}" >>
    /\ TextAt(SheetAfter, LastDispatch.row, LastDispatch.col)
        = << "2", "0", "2", "6", " ", "M", "a", "y", " ",
             "2", "0", "2", "6" >>
    /\ StyleAt(SheetAfter, LastDispatch.row, LastDispatch.col) = 1

-----------------------------------------------------------------------------
(* C37 *)

\* The number of [digits:digits] codes the text holds.
CodeCount(text) ==
    Cardinality({ i \in 1 .. Len(text) : mergeCodeAt(text, i) > 0 })

\* The last dispatch handed a text with two or more codes to the merge-code
\* handler, which returned nil.
SeveralCodesHandled ==
    /\ MergeCodeDispatched
    /\ LastDispatch.err = Nil
    /\ CodeCount(LastDispatch.value) >= 2

\* No symbol of a code is left in the cell.
AllCodesStripped ==
    /\ TextAt(SheetAfter, LastDispatch.row, LastDispatch.col)
        = WithoutPositions(LastDispatch.value,
                           CodePositions(LastDispatch.value), 1)
    /\ ~HasCode(TextAt(SheetAfter, LastDispatch.row, LastDispatch.col))

\* C37 as stated: for a text with two or more codes every code is stripped
\* from the text written and exactly one range is merged, the rectangle of
\* the first code of the text.
C37_OneMergePerCell ==
    SeveralCodesHandled =>
        /\ AllCodesStripped
        /\ NewMerges = {CodeRectangle}

\* C37, amended: every code is stripped and at most one range is merged,
\* the rectangle of the first code of the text alone; when the first code
\* is [0:0] nothing is merged, whatever the codes after it.
C37_FirstCodeDecides ==
    SeveralCodesHandled =>
        /\ AllCodesStripped
        /\ NewMerges = IF FirstCode(LastDispatch.value).r = 0
                            /\ FirstCode(LastDispatch.value).c = 0
                       THEN {}
                       ELSE {CodeRectangle}

\* The handler returned nil for "p[2:0]q[0:1]": the cell holds "pq" and
\* the one new range is the cell and the two cells below it.
C37_Witness ==
    /\ SeveralCodesHandled
    /\ LastDispatch.value
        = << "p", "[", "2", ":", "0", "]", "q", "[", "0", ":", "1", "]" >>
    /\ TextAt(SheetAfter, LastDispatch.row, LastDispatch.col) = << "p", "q" >>
    /\ NewMerges = {[r1 |-> LastDispatch.row, c1 |-> LastDispatch.col,
                     r2 |-> LastDispatch.row + 2, c2 |-> LastDispatch.col]}

-----------------------------------------------------------------------------
(* C35 *)

\* The text the grid read from the sheet holds at (r, c); empty outside it.
SnapshotTextAt(grid, r, c) ==
    IF r < Len(grid) /\ c < Len(grid[r + 1]) THEN grid[r + 1][c + 1]
    ELSE << >>

\* The cells of the grids read in this pass whose text some entry of the
\* registry matches: sheet index, row and column of each.
SnapshotMatches ==
    { << k, r, c >> \in (1 .. Len(ghost.snaps)) \X (0 .. 6) \X (0 .. 6) :
        /\ SnapshotTextAt(ghost.snaps[k], r, c) # << >>
        /\ MatchingEntries(SnapshotTextAt(ghost.snaps[k], r, c)) # {} }

\* The cells of the workbook as it is now whose text some entry of the
\* registry matches and which the grid read from their sheet did not hold
\* at that place: text a handler of this pass wrote.
WrittenMatches ==
    { << k, r, c >> \in (1 .. Len(ghost.snaps)) \X (0 .. 6) \X (0 .. 6) :
        LET text == TextAt(file.sh[file.sheets[k]], r, c)
        IN  /\ text # << >>
            /\ MatchingEntries(text) # {}
            /\ text # SnapshotTextAt(ghost.snaps[k], r, c) }

\* The dispatches of the pass that invoked a handler.
InvokingDispatches == { k \in 1 .. Len(ghost.log) : ghost.log[k].invoked # << >> }

\* C35: every dispatch of a pass hands over the text the grid read from
\* the sheet before its first dispatch holds at that cell, whatever the
\* handlers of the pass have written since; a pass that scanned its sheets
\* to the end invoked handlers as many times as the grids hold cells with
\* a registered pattern, so text a handler wrote into the rows it inserted,
\* with a registered pattern or not, was handed to no handler in the pass.
C35_WrittenTextNotDispatched ==
    /\ \A k \in 1 .. Len(ghost.log) :
        ghost.log[k].value
            = SnapshotTextAt(ghost.snaps[SheetIndex(ghost.log[k].sheet)],
                             ghost.log[k].row, ghost.log[k].col)
    /\ Cardinality(InvokingDispatches) <= Cardinality(SnapshotMatches)
    /\ pc = "write" =>
        Cardinality(InvokingDispatches) = Cardinality(SnapshotMatches)

\* A pass ended after the legend handler wrote, into a row it inserted
\* below the one it was called at, a mark whose name holds the placeholder
\* of the legend: the workbook holds that text where the grid did not, and
\* the handler was invoked once, for the one cell of the grid.
C35_Witness ==
    /\ pc = "write"
    /\ \E k \in InvokingDispatches :
        /\ KindOf(k) = "writeMarks"
        /\ \E w \in WrittenMatches : w[2] > ghost.log[k].row
    /\ Cardinality(InvokingDispatches) = 1
    /\ Cardinality(SnapshotMatches) = 1

-----------------------------------------------------------------------------
(* C36 *)

\* The columns of row rr, from the first attendance column on, that hold a
\* text: the cells writeEmployeeRow wrote the attendance of the row into.
AttendanceColsOf(sheetRec, rr) ==
    { j \in ColumnsOf(sheetRec, sheetRec) :
        /\ j >= AttendanceStartCol(0)
        /\ TextAt(sheetRec, rr, j) # << >> }

\* The formula pass of a run has called the formula handler, which
\* returned nil, on the sheet the structural pass wrote the employees
\* into, for a text with a key that has a generator.
FormulasOverEmployees ==
    /\ FormulasHandled
    /\ ghost.pass = 2
    /\ LastDispatch.sheet = "Sheet1"
    /\ LastHandler.employeeCount >= 1
    /\ GeneratingKeys(LastHandler, LastDispatch.value) # << >>

\* C36: for each employee row whose attendance fills the D days of the
\* month, the range of the formula the formula pass writes for the row, the
\* columns attStart .. attStart + D - 1 of that row with attStart =
\* AttendanceStartCol(col), covers the cells holding the attendance of that
\* employee and no other cell; the cell of the formula lies outside it.
C36_RangeIsAttendance ==
    FormulasOverEmployees =>
        LET r == LastDispatch.row
            c == LastDispatch.col
            h == LastHandler
            n == h.employeeCount
        IN  \A i \in 1 .. n :
                LET rr == r - n + i - 1
                    written == AttendanceColsOf(SheetBefore, rr)
                IN  Cardinality(written) = days =>
                        /\ TextAt(SheetBefore, rr, 0) = Itoa(i)
                        /\ h.attStart = AttendanceStartCol(0)
                        /\ written = h.attStart .. (h.attStart + days - 1)
                        /\ \A j \in 1 .. days :
                            TextAt(SheetAfter, rr, h.attStart + j - 1)
                                = AttendanceOf(i, days)[j]
                        /\ FormulaAt(SheetAfter, rr, c)
                            = buildFormula(h.keys, LastDispatch.value,
                                RowRange(rr, AttendanceStartCol(0),
                                         Cardinality(written))).formula
                        /\ c \notin written

\* The formula pass wrote the formula of the second of two employees with
\* a full month of attendance: the last attendance cell of the row is the
\* last cell of the range and the formula is in the column to its right.
C36_Witness ==
    /\ FormulasOverEmployees
    /\ LastHandler.employeeCount = 2
    /\ Cardinality(AttendanceColsOf(SheetBefore, LastDispatch.row - 1)) = days
    /\ TextAt(SheetAfter, LastDispatch.row - 1, 4 + days - 1)
        = AttendanceOf(2, days)[days]
    /\ LastDispatch.col = 4 + days
    /\ FormulaAt(SheetAfter, LastDispatch.row - 1, LastDispatch.col) # << >>

-----------------------------------------------------------------------------
(* C31 *)

\* The row of the template sheet that holds {{start_process}}.
TemplateRow ==
    CHOOSE r \in 0 .. (Len(AttendanceSheet.rows) - 1) :
        \E c \in ColumnsOf(AttendanceSheet, AttendanceSheet) :
            TextAt(AttendanceSheet, r, c) = << "{{start_process}}" >>

\* The cells of the sheet whose formula the last call changed.
FormulaCellsChanged ==
    { << rr, j >> \in (0 .. Len(SheetBefore.rows))
                        \X ColumnsOf(SheetBefore, SheetAfter) :
        FormulaAt(SheetAfter, rr, j) # FormulaAt(SheetBefore, rr, j) }

\* C31: when the structural pass has replaced the template row r by the N
\* employee rows and the formula placeholder was in the row below the
\* template row, the formula pass with employee count N finds the
\* placeholder at row r + N, and the cells that receive a formula are the
\* cells of its column in the rows r .. r + N - 1, which hold the
\* employees 1 .. N; no cell of a header row or of any other row does.
C31_HandOff ==
    FormulasOverEmployees =>
        LET r == TemplateRow
            n == LastHandler.employeeCount
        IN  /\ LastDispatch.row = r + n
            /\ FormulaCellsChanged
                = { << rr, LastDispatch.col >> : rr \in r .. (r + n - 1) }
            /\ \A i \in 1 .. n :
                /\ TextAt(SheetBefore, r + i - 1, 0) = Itoa(i)
                /\ TextAt(SheetBefore, r + i - 1, 1) = EmployeeOf(i, 0).FullName
            /\ TextAt(SheetBefore, r - 1, 0) # Itoa(1)
            /\ TextAt(ghost.start.sh["Sheet1"], r + n, LastDispatch.col)
                = LastDispatch.value

\* The formula pass after two employee rows were written at row 3 found
\* "{{t}}{{d}}" at row 5 and wrote formulas into rows 3 and 4 alone.
C31_Witness ==
    /\ FormulasOverEmployees
    /\ LastHandler.employeeCount = 2
    /\ TemplateRow = 3
    /\ LastDispatch.row = 5
    /\ LastDispatch.value = << "{{t}}", "{{d}}" >>
    /\ FormulaCellsChanged = { << 3, LastDispatch.col >>, << 4, LastDispatch.col >> }

-----------------------------------------------------------------------------
(* C32 *)

\* The first pass of main has called the legend handler of step1, which
\* returned nil, on a sheet on which the employee handler of the same
\* registry was called before, at a row above.
LegendBelowEmployees ==
    /\ Handled("writeMarks")
    /\ ghost.pass = 1
    /\ \E k \in 1 .. (Len(ghost.log) - 1) :
        /\ KindOf(k) = "writeEmployees"
        /\ ghost.log[k].sheet = LastDispatch.sheet
        /\ ghost.log[k].row < LastDispatch.row

\* C32: in the structural pass of main, when the legend handler is called
\* for a {{marks_list}} below the {{start_process}} row, the row it is
\* called at, which it removes, is the row holding {{marks_list}} at that
\* moment, whatever the number of employees written above: after the call
\* no cell of the sheet holds the placeholder.
C32_LegendRowCurrent ==
    LegendBelowEmployees =>
        /\ Contains(TextAt(SheetBefore, LastDispatch.row, LastDispatch.col),
                    << "{{marks_list}}" >>)
        /\ ~HoldsText(SheetAfter, << "{{marks_list}}" >>)

\* With two employees written above, the legend handler was called at the
\* row the footer had moved to: it removed the footer, and the row with
\* {{marks_list}} is still in the sheet, below the legend rows.
C32_Witness ==
    /\ LegendBelowEmployees
    /\ Len(registry[3].handler.employees) = 2
    /\ TextAt(SheetBefore, LastDispatch.row, 0) = << "Footer" >>
    /\ ~HoldsText(SheetAfter, << "Footer" >>)
    /\ TextAt(SheetAfter, LastDispatch.row + 2, 0) = << "{{marks_list}}" >>

-----------------------------------------------------------------------------
(* C33 *)

\* The row of the sheet that holds the text in column c.
RowHolding(sheetRec, c, value) ==
    CHOOSE rr \in 0 .. (Len(sheetRec.rows) - 1) :
        TextAt(sheetRec, rr, c) = value

\* The formula pass has called the removing formula handler, which
\* returned nil, for a placeholder the sheet still held in that column, on
\* the sheet with formula placeholders in two rows.
PlaceholderOfTwoRowsHandled ==
    /\ Handled("handle")
    /\ ghost.pass = 2
    /\ LastDispatch.sheet = "Sheet1"
    /\ HoldsText(ghost.start.sh["Sheet1"], << "{{w}}" >>)
    /\ GeneratingKeys(LastHandler, LastDispatch.value) # << >>
    /\ \E rr \in 0 .. (Len(SheetBefore.rows) - 1) :
        TextAt(SheetBefore, rr, LastDispatch.col) = LastDispatch.value

\* C33: when a sheet has formula placeholders in two rows R1 < R2, the
\* removing formula handler, for the placeholders of either row, writes
\* the formulas into the N rows directly above the row that holds the
\* placeholder at the time of the call, and the row it removes is that
\* row: afterwards no cell holds the placeholder.
C33_TwoFormulaRows ==
    PlaceholderOfTwoRowsHandled =>
        LET c == LastDispatch.col
            n == LastHandler.employeeCount
            p == RowHolding(SheetBefore, c, LastDispatch.value)
        IN  /\ FormulaCellsChanged = { << rr, c >> : rr \in (p - n) .. (p - 1) }
            /\ Len(SheetAfter.rows) < Len(SheetBefore.rows)
                => ~HoldsText(SheetAfter, LastDispatch.value)

\* With two employees, the handler was called for {{w}} of the second
\* formula row after the first formula row was removed: the footer below
\* the placeholder is gone, the placeholder is still in the sheet, and its
\* own cell has received a formula.
C33_Witness ==
    /\ PlaceholderOfTwoRowsHandled
    /\ LastHandler.employeeCount = 2
    /\ LastDispatch.value = << "{{w}}" >>
    /\ HoldsText(SheetBefore, << "Footer" >>)
    /\ ~HoldsText(SheetAfter, << "Footer" >>)
    /\ TextAt(SheetAfter, LastDispatch.row - 1, LastDispatch.col) = << "{{w}}" >>
    /\ FormulaAt(SheetAfter, LastDispatch.row - 1, LastDispatch.col) # << >>

-----------------------------------------------------------------------------
(* C34 *)

\* The Processor of the formula pass is processing its second workbook.
SecondUse == ghost.pass = 3

\* C34: when the Processor of the formula pass, with its registry and its
\* one formula handler, processes a second workbook, the handler starts
\* with no row recorded as removed and with no style handle cached: the
\* first placeholder it handles in a row has that row removed, as in the
\* first workbook, and the style it puts on the formula cells is one
\* allocated in the second workbook.
C34_HandlerStatePerPass ==
    SecondUse =>
        /\ ghost.log = << >> => hstate = FreshHandlerState
        /\ (Handled("handle") /\ FirstOfItsRow) =>
            /\ Len(SheetAfter.rows) = Len(SheetBefore.rows) - 1
            /\ file.nstyles = ghost.start.nstyles + 1
            /\ StyleAt(SheetAfter, LastDispatch.row - 1, LastDispatch.col)
                = file.nstyles

\* In its second workbook the handler was called for the first placeholder
\* of the formula row and removed nothing; the cell above got the handle
\* cached from the first workbook, which the second workbook never
\* allocated.
C34_Witness ==
    /\ SecondUse
    /\ Handled("handle")
    /\ FirstOfItsRow
    /\ LastDispatch.value = << "{{t}}", "{{d}}" >>
    /\ Len(SheetAfter.rows) = Len(SheetBefore.rows)
    /\ TextAt(SheetAfter, LastDispatch.row, LastDispatch.col) = LastDispatch.value
    /\ file.nstyles = ghost.start.nstyles
    /\ StyleAt(SheetAfter, LastDispatch.row - 1, LastDispatch.col)
        = ghost.start.nstyles + 1
    /\ ghost.prior[2].bytes.nstyles = ghost.start.nstyles + 1

=============================================================================
